---- MODULE Spec2Model ----
(***************************************************************************)
(* A model of radiant_mlhub's download machinery:                          *)
(*   - ResumableDownloader (client/resumable_downloader.py): one URL to    *)
(*     one local file, with skip / overwrite / resume and md5 validation;  *)
(*   - CatalogDownloader (client/catalog_downloader.py): the step pipeline *)
(*     fetch -> unarchive -> build asset index -> filters -> download;     *)
(*   - _download (util.py): the archive download in parallel byte ranges;  *)
(*   - datetime_utils.py: the comparisons of instants and intervals;       *)
(*   - one session.get, retried as the session's adapter is configured;    *)
(*   - get_session (session.py): where the API key is taken from;          *)
(*   - _download_asset_worker: the url one asset is requested at.          *)
(* The machines have their own variables; a specification of one leaves    *)
(* the variables of the others untouched.                                  *)
(***************************************************************************)
EXTENDS Integers, Sequences, FiniteSets, TLC

\* ------------------------------------------------------------------ bounds
\* longest remote resource, in bytes
MaxLen == 2
\* largest chunk_size a ResumableDownloader is constructed with
MaxChunk == 2

Bytes == {0, 1}

RECURSIVE SeqsUpTo(_, _)
SeqsUpTo(S, n) ==
    IF n = 0 THEN {<<>>}
    ELSE LET shorter == SeqsUpTo(S, n - 1)
         IN  shorter \cup {Append(s, b) : s \in {t \in shorter : Len(t) = n - 1}, b \in S}

Min(a, b) == IF a <= b THEN a ELSE b

\* ------------------------------------------------- ResumableDownloader state
VARIABLES
    remote,         \* the bytes the url serves (never changes)
    srv_md5,        \* the server's content-md5 header: "none", "valid", "notb64"
    if_exists,      \* DownloadIfExistsOpts of the downloader
    md5_check,      \* self.md5_check
    chunk_size,     \* self.chunk_size
    out_file,       \* self.out_file on disk: [exists, data]
    checksum_file,  \* f'{out_file}.md5' on disk: [exists, hex]
    rd_pc,          \* position inside run(): "idle", "request", "stream", "finish"
    pos,            \* f.tell() after open(mode='ab')
    content_len,    \* total size the response declares
    requests,       \* session.get calls of the current run
    rd_result,      \* how the last run ended: "none", "ok", "error"
    rd_error,       \* the exception the last run raised ("" if none)
    rd_fresh,       \* history: the first run started with no out_file and no .md5
    file0,          \* history: out_file as the current run found it
    req_range       \* the range header of the current run's request (-1: none)

rdVars == <<remote, srv_md5, if_exists, md5_check, chunk_size, out_file,
            checksum_file, rd_pc, pos, content_len, requests, rd_result,
            rd_error, rd_fresh, file0, req_range>>

\* ------------------------------------------------- CatalogDownloader state
VARIABLES
    config,       \* CatalogDownloaderConfig, plus the test environment's dry run
    archive,      \* what the catalog endpoint serves: [catalog_json, docs]
    disk,         \* work_dir on disk: [catalog_json, docs]
    cd_pc,        \* "config", "new", "steps", "download", "done", "failed"
    steps,        \* the list __call__ builds
    step_i,       \* index into steps of the step to call next
    trace,        \* history: the steps called so far, in order
    db,           \* mlhub_stac_assets.db: "none", "open", "closed"
    assets,       \* the assets table, rowid = position
    asset_list,   \* the records _asset_download_step hands to the pool
    futures,      \* per scheduled asset: "queued", "running", "ok", "raised"
    handled,      \* futures the as_completed loop has gone through
    err_report,   \* rows written to err_report.csv
    cd_error,     \* the exception that ended the run: [step, msg]
    fs            \* the directories and files the run has created

cdVars == <<config, archive, disk, cd_pc, steps, step_i, trace, db, assets,
            asset_list, futures, handled, err_report, cd_error, fs>>

\* ------------------------------------------------- _download (util.py) state
VARIABLES
    dl_remote,     \* the bytes the archive url serves
    dl_if_exists,  \* 'skip', 'overwrite' or 'resume'
    dl_chunk,      \* chunk_size: the bytes one range request asks for
    dl_out,        \* output_path on disk: [exists, data]
    dl_out0,       \* history: output_path as the call found it
    dl_pc,         \* "idle", "fetch", "done", "failed"
    dl_reqs,       \* history: the requests sent, in order
    dl_ranges,     \* the ranges _get_ranges yields, in order
    dl_got,        \* per range: [st, content], st "queued", "running", "raised", "done"
    dl_next        \* the index of the next chunk executor.map yields

dlVars == <<dl_remote, dl_if_exists, dl_chunk, dl_out, dl_out0, dl_pc, dl_reqs,
            dl_ranges, dl_got, dl_next>>

\* ------------------------------------------------- datetime_utils calls
VARIABLES
    dt_fn,   \* the function called: its name in datetime_utils.py
    dt_d1,   \* its first argument: <<instant>> or <<start, end>>
    dt_d2,   \* its second argument
    dt_pc,   \* "called", "returned"
    dt_out   \* the value returned (FALSE until the call returns)

dtVars == <<dt_fn, dt_d1, dt_d2, dt_pc, dt_out>>

\* ------------------------------------------------- one session.get
VARIABLES
    rt_session,  \* whose session sends: "mlhub" (the archive), "own" (an asset)
    rt_left,     \* retries the adapter's Retry object still allows
    rt_history,  \* history: the status of every response, in order
    rt_pc        \* "idle", "sending", "returned", "raised"

rtVars == <<rt_session, rt_left, rt_history, rt_pc>>

\* ------------------------------------------------- one get_session call
VARIABLES
    gs_api_key,      \* the api_key argument ("None" if not passed)
    gs_env_key,      \* MLHUB_API_KEY in os.environ ("None" if not there)
    gs_profile,      \* the profile argument
    gs_env_profile,  \* MLHUB_PROFILE in os.environ
    gs_file,         \* the profiles file: [exists, keys], keys by section
    gs_pc,           \* "called", "returned", "raised"
    gs_out           \* the session returned: [key, source], or the exception

gsVars == <<gs_api_key, gs_env_key, gs_profile, gs_env_profile, gs_file, gs_pc, gs_out>>

\* ------------------------------------------------- one _download_asset_worker call
VARIABLES
    wk_rec,        \* the asset record the future was submitted for
    wk_pc,         \* "queued", "running", "ok", "raised", "handled"
    wk_url,        \* the url ResumableDownloader was given (<<>> before the call)
    wk_report      \* the rows written to err_report.csv

wkVars == <<wk_rec, wk_pc, wk_url, wk_report>>

vars == <<rdVars, cdVars, dlVars, dtVars, rtVars, gsVars, wkVars>>

\* hashlib.md5(bytes).digest(), taken to be collision free: the bytes read as
\* a binary numeral behind a leading 1
RECURSIVE Md5(_)
Md5(data) ==
    IF data = <<>> THEN 1
    ELSE 2 * Md5(SubSeq(data, 1, Len(data) - 1)) + data[Len(data)]

\* the two encodings of a digest: base64 in the header, hex in the .md5 file
B64(d) == [enc |-> "b64", digest |-> d]
Hex(d) == [enc |-> "hex", digest |-> d]
\* base64.b64decode(checksum, validate=True).hex()
B64ToHex(h) == Hex(h.digest)

NoFile == [exists |-> FALSE, data |-> <<>>]
NoChecksum == [exists |-> FALSE, hex |-> Hex(0)]

\* a check that is content with finding both files
validate_files_only(file, cfile, check) == check /\ file.exists /\ cfile.exists

\* ResumableDownloader.validate
validate(file, cfile, check) ==
    IF ~check THEN FALSE
    ELSE IF ~file.exists THEN FALSE
    ELSE IF ~cfile.exists THEN FALSE
    ELSE Hex(Md5(file.data)) = cfile.hex

RdReturn == /\ rd_pc' = "idle" /\ rd_result' = "ok" /\ rd_error' = ""
RdRaise(e) == /\ rd_pc' = "idle" /\ rd_result' = "error" /\ rd_error' = e

\* an overwrite that opens the old file for appending without unlinking it
KeptBytesNoUnlink(file, policy) == IF file.exists THEN file.data ELSE <<>>

\* lines 115-117 and 131: what open(mode='ab') finds in the file; overwrite
\* has unlinked it before
KeptBytes(file, policy) ==
    IF file.exists /\ policy # "overwrite" THEN file.data ELSE <<>>

\* run(), lines 113-138: the if_exists decision, open(mode='ab'), f.tell()
RunOpen ==
    /\ UNCHANGED <<cdVars, dlVars, dtVars, rtVars, gsVars, wkVars>>
    /\ rd_pc = "idle"
    /\ requests' = 0
    /\ file0' = out_file
    /\ req_range' = -1
    /\ UNCHANGED <<remote, srv_md5, if_exists, md5_check, chunk_size,
                   checksum_file, content_len, rd_fresh>>
    /\ IF out_file.exists /\ if_exists # "overwrite"
             /\ validate(out_file, checksum_file, md5_check)
       THEN \* exists, is valid: early out
            /\ RdReturn
            /\ UNCHANGED <<out_file, pos>>
       ELSE IF out_file.exists /\ if_exists = "skip"
       THEN /\ RdRaise("RuntimeError: exists but is invalid -> cannot skip")
            /\ UNCHANGED <<out_file, pos>>
       ELSE LET kept == KeptBytes(out_file, if_exists)
            IN  /\ out_file' = [exists |-> TRUE, data |-> kept]
                /\ pos' = Len(kept)
                /\ rd_pc' = "request"
                /\ UNCHANGED <<rd_result, rd_error>>

\* a downloader that forgets the range header and asks for the whole resource
RangeStartNoRange(p) == -1

\* a range header that starts one byte behind the end of the local file
RangeStartOffByOne(p) == IF p > 0 THEN p + 1 ELSE -1

\* the range header of the request, lines 137-138: -1 stands for no header
RangeStart(p) == IF p > 0 THEN p ELSE -1

\* what an unchanged, range-capable server answers to GET with that header
\*   status 200 + content-length for a plain GET,
\*   status 206 + content-range bytes a-b/N for a satisfiable range
ServerBody(start) ==
    IF start < 0 THEN remote ELSE SubSeq(remote, start + 1, Len(remote))

\* run(), lines 153-171: persist the content-md5 header as hex, then return
\* early when the local file already holds content_len bytes or more
AfterHeaders(len) ==
    IF srv_md5 = "notb64"
    THEN \* base64.b64decode(validate=True) raises before the .md5 is opened
         /\ RdRaise("binascii.Error")
         /\ UNCHANGED checksum_file
    ELSE LET cfile == IF srv_md5 = "valid"
                      THEN [exists |-> TRUE, hex |-> B64ToHex(B64(Md5(remote)))]
                      ELSE checksum_file
         IN  /\ checksum_file' = cfile
             /\ IF pos >= len
                THEN IF md5_check /\ ~validate(out_file, cfile, md5_check)
                     THEN RdRaise("IOError: Failed to validate md5 checksum")
                     ELSE RdReturn
                ELSE /\ rd_pc' = "stream"
                     /\ UNCHANGED <<rd_result, rd_error>>

\* run(), lines 139-171: the request, the header checks, the .md5 file and the
\* early return when nothing remains
RunRequest ==
    /\ UNCHANGED <<cdVars, dlVars, dtVars, rtVars, gsVars, wkVars>>
    /\ rd_pc = "request"
    /\ requests' = requests + 1
    /\ req_range' = RangeStart(pos)
    /\ UNCHANGED <<remote, srv_md5, if_exists, md5_check, chunk_size, out_file,
                   pos, rd_fresh, file0>>
    /\ \E net \in {"ok", "fail"} :
         IF net = "fail"
         THEN \* retries exhausted or an error status (raise_for_status), or the
              \* server does not advertise accept-ranges (assert)
              /\ RdRaise("HTTPError")
              /\ UNCHANGED <<checksum_file, content_len>>
         ELSE IF RangeStart(pos) >= Len(remote)
         THEN \* nothing is left to serve: 416 Range Not Satisfiable, or a
              \* lenient 206 with an empty body and content-range */N
              \E lenient \in BOOLEAN :
                IF ~lenient
                THEN /\ RdRaise("HTTPError: 416 Range Not Satisfiable")
                     /\ UNCHANGED <<checksum_file, content_len>>
                ELSE /\ content_len' = Len(remote)
                     /\ AfterHeaders(Len(remote))
         ELSE /\ content_len' = Len(remote)
              /\ AfterHeaders(Len(remote))

\* bytes of the response body already appended by the current run
Written == Len(out_file.data) - pos

\* run(), lines 173-181: one chunk of resp.iter_content is appended
RunWrite ==
    /\ UNCHANGED <<cdVars, dlVars, dtVars, rtVars, gsVars, wkVars>>
    /\ rd_pc = "stream"
    /\ LET body == ServerBody(RangeStart(pos))
           n    == Min(chunk_size, Len(body) - Written)
       IN  /\ n > 0
           /\ out_file' = [out_file EXCEPT
                  !.data = @ \o SubSeq(body, Written + 1, Written + n)]
    /\ UNCHANGED <<remote, srv_md5, if_exists, md5_check, chunk_size,
                   checksum_file, rd_pc, pos, content_len, requests, rd_result,
                   rd_error, rd_fresh, file0, req_range>>

\* run(), lines 182-185: the body is exhausted; flush, close, validate
RunFinish ==
    /\ UNCHANGED <<cdVars, dlVars, dtVars, rtVars, gsVars, wkVars>>
    /\ rd_pc = "stream"
    /\ Written = Len(ServerBody(RangeStart(pos)))
    /\ IF md5_check /\ ~validate(out_file, checksum_file, md5_check)
       THEN RdRaise("IOError: failed validation after download")
       ELSE RdReturn
    /\ UNCHANGED <<remote, srv_md5, if_exists, md5_check, chunk_size, out_file,
                   checksum_file, pos, content_len, requests, rd_fresh, file0,
                   req_range>>

\* the run is cut short while the body is streamed (connection lost inside
\* iter_content, process killed): what was appended stays on disk
RunInterrupt ==
    /\ UNCHANGED <<cdVars, dlVars, dtVars, rtVars, gsVars, wkVars>>
    /\ rd_pc = "stream"
    /\ RdRaise("interrupted")
    /\ UNCHANGED <<remote, srv_md5, if_exists, md5_check, chunk_size, out_file,
                   checksum_file, pos, content_len, requests, rd_fresh, file0,
                   req_range>>

\* local files a run may find: none, or any bytes up to one longer than the
\* longest remote
LocalFiles ==
    {NoFile} \cup {[exists |-> TRUE, data |-> d] : d \in SeqsUpTo(Bytes, MaxLen + 1)}

\* .md5 files a run may find: none, the digest of the remote, or a stale digest
ChecksumFiles(r) ==
    {NoChecksum, [exists |-> TRUE, hex |-> Hex(Md5(r))],
     [exists |-> TRUE, hex |-> Hex(Md5(<<1, 1, 0, 1>>))]}

\* ------------------------------------------------- CatalogDownloader data
\* Python None where a string is expected (item_id of a collection-level asset)
Null == "None"
\* a STAC item without bbox: item.get('bbox', None)
NoBox == <<>>
\* a datetime property that is None or missing, as stored in the TEXT column
NoText == <<>>

COMMON_ASSET_NAMES ==
    {"documentation", "readme", "test_split", "train_split", "validation_split"}

\* the suffixes _asset_save_path looks for in the url, in the order of its elif
KnownExts == <<".tif", ".tiff", ".json", ".pdf", ".png", ".jpg", ".jpeg", ".csv">>

\* A url is [scheme, bucket, name, suffix, marks]: suffix is the suffix of the
\* url's path ("" if it has none), marks the known suffixes occurring anywhere
\* in the url as substrings.
RECURSIVE FirstExt(_, _)
FirstExt(marks, i) ==
    IF i > Len(KnownExts) THEN ""
    ELSE IF KnownExts[i] \in marks THEN KnownExts[i]
    ELSE FirstExt(marks, i + 1)

\* _asset_save_path, lines 186-206: the extension
Ext(url) ==
    LET e == FirstExt(url.marks, 1)
    IN  IF e # "" THEN e ELSE url.suffix

\* a layout that keeps a common asset in the directory of its item
asset_save_path_per_item(rec) ==
    [collection |-> rec.collection_id,
     dir  |-> IF rec.item_id = Null THEN "" ELSE rec.item_id,
     key  |-> rec.asset_key,
     ext  |-> Ext(rec.asset_url)]

\* _asset_save_path, lines 208-216, relative to asset_dir: a path is
\* collection / [dir /] key ext, dir being "" for a collection-level asset
asset_save_path(rec) ==
    [collection |-> rec.collection_id,
     dir  |-> IF rec.item_id = Null THEN ""
              ELSE IF rec.common_asset THEN "_common"
              ELSE rec.item_id,
     key  |-> rec.asset_key,
     ext  |-> Ext(rec.asset_url)]

\* json.dumps / json.loads of a bbox; None stays None
JsonDumps(b) == IF b = NoBox THEN [null |-> TRUE, text |-> NoBox]
                ELSE [null |-> FALSE, text |-> b]
JsonLoads(j) == j.text

\* a datetime property as the TEXT the index stores, and dateutil's parse of it
DateText(t) == <<t>>
date_parser(text) == text[1]

\* AssetRecord of an item's asset, lines 262-278
ItemRec(doc, a) ==
    LET rec == [asset_key |-> a.key,
                asset_save_path |-> [collection |-> "", dir |-> "", key |-> "", ext |-> ""],
                asset_url |-> a.href,
                bbox_json |-> JsonDumps(doc.bbox),
                collection_id |-> doc.collection,
                common_asset |-> a.key \in COMMON_ASSET_NAMES,
                end_datetime |-> doc.end_datetime,
                filtered |-> FALSE,
                geometry_json |-> doc.geometry,
                item_id |-> doc.id,
                single_datetime |-> doc.datetime,
                start_datetime |-> doc.start_datetime]
    IN  [rec EXCEPT !.asset_save_path = asset_save_path(rec)]

\* AssetRecord of a collection's asset, lines 298-314
CollRec(doc, a) ==
    LET rec == [asset_key |-> a.key,
                asset_save_path |-> [collection |-> "", dir |-> "", key |-> "", ext |-> ""],
                asset_url |-> a.href,
                bbox_json |-> JsonDumps(NoBox),
                collection_id |-> doc.id,
                common_asset |-> FALSE,
                end_datetime |-> NoText,
                filtered |-> FALSE,
                geometry_json |-> FALSE,
                item_id |-> Null,
                single_datetime |-> NoText,
                start_datetime |-> NoText]
    IN  [rec EXCEPT !.asset_save_path = asset_save_path(rec)]

\* lines 327-331: which handler a document goes to
IsCollection(doc) == doc.file = "collection.json" \/ doc.type = "Collection"

\* the loop over assets.items() of either handler: one INSERT per asset, until
\* the extension assert of _asset_save_path (line 207) fails
RECURSIVE InsertAssets(_, _, _)
InsertAssets(doc, i, rows) ==
    IF i > Len(doc.assets) THEN [rows |-> rows, err |-> ""]
    ELSE LET rec == IF IsCollection(doc) THEN CollRec(doc, doc.assets[i])
                    ELSE ItemRec(doc, doc.assets[i])
         IN  IF Ext(rec.asset_url) = ""
             THEN [rows |-> rows, err |-> "AssertionError: File extension"]
             ELSE InsertAssets(doc, i + 1, Append(rows, rec))

\* bool(config.collection_filter): a dict that is given and not empty
FilterGiven(cf) == cf.given /\ DOMAIN cf.map # {}

\* _handle_item, lines 252-282; stac_item['id'] (line 253) raises for a
\* document that has no such key
handle_item(doc, rows) ==
    IF doc.id = Null
    THEN [rows |-> rows, err |-> "KeyError: 'id'"]
    ELSE IF doc.geometry /\ doc.bbox = NoBox
    THEN [rows |-> rows, err |-> "RuntimeError: item has no bbox, but has geometry"]
    ELSE InsertAssets(doc, 1, rows)

\* _handle_collection, lines 284-318
handle_collection(doc, cf, rows) ==
    IF FilterGiven(cf) /\ doc.id \notin DOMAIN cf.map
    THEN [rows |-> rows, err |-> ""]
    ELSE IF ~doc.has_assets THEN [rows |-> rows, err |-> ""]
    ELSE InsertAssets(doc, 1, rows)

\* _create_asset_list_step, lines 320-331: the documents in the order iglob
\* yields them; the first error ends the scan
RECURSIVE create_asset_list(_, _, _, _)
create_asset_list(order, i, cf, rows) ==
    IF i > Len(order) THEN [rows |-> rows, err |-> ""]
    ELSE LET r == IF IsCollection(order[i])
                  THEN handle_collection(order[i], cf, rows)
                  ELSE handle_item(order[i], rows)
         IN  IF r.err # "" THEN r
             ELSE create_asset_list(order, i + 1, cf, r.rows)

\* a count without the WHERE filtered = 0
count_all_paths(rows) ==
    Cardinality({rows[i].asset_save_path : i \in DOMAIN rows})

\* _fetch_unfiltered_count: COUNT(DISTINCT asset_save_path) WHERE filtered = 0
fetch_unfiltered_count(rows) ==
    Cardinality({rows[i].asset_save_path : i \in {j \in DOMAIN rows : ~rows[j].filtered}})

\* an update that sets the flag of every row: filtered = (rowid IN (...))
mark_assets_exactly(rows, row_ids) ==
    [i \in DOMAIN rows |-> [rows[i] EXCEPT !.filtered = (i \in row_ids)]]

\* _mark_assets_filtered: UPDATE assets SET filtered = 1 WHERE rowid IN (...)
mark_assets_filtered(rows, row_ids) ==
    [i \in DOMAIN rows |->
        IF i \in row_ids THEN [rows[i] EXCEPT !.filtered = TRUE] ELSE rows[i]]

\* the rows every filter step selects: filtered = 0 AND item_id IS NOT NULL
Selected(rows) == {i \in DOMAIN rows : ~rows[i].filtered /\ rows[i].item_id # Null}

\* ------------------------------------------------- filter steps
\* cursor.arraysize (line 721 sets 1024), scaled to the model's catalogs: the
\* number of rows one fetchmany() returns
ArraySize == 2

RECURSIVE SeqOfSet(_)
\* the row ids of a set in ascending order (a table scan goes by rowid)
SeqOfSet(S) ==
    IF S = {} THEN <<>>
    ELSE LET m == CHOOSE x \in S : \A y \in S : x <= y
         IN  <<m>> \o SeqOfSet(S \ {m})

\* the tuple's rowid column taken for the scan position
RowIdByPosition(scan, n) == n

\* lines 367-368: the rowid column of the n-th tuple of the scan
RowId(scan, n) == scan[n]

\* lines 369-380: whether the allow list keeps a row
collection_keeps(f, row) ==
    /\ row.collection_id \in DOMAIN f
    /\ (f[row.collection_id] = {} \/ row.asset_key \in f[row.collection_id])

\* _filter_collections_step, lines 347-384: the row ids it marks
filter_collections(rows, f) ==
    LET scan == SeqOfSet(Selected(rows))
    IN  {RowId(scan, n) : n \in {k \in 1..Len(scan) : ~collection_keeps(f, rows[scan[k]])}}

\* datetime_utils.py
one_to_one_check(d1, d2) == d1 = d2

\* a check that leaves the two ends of the range out
one_to_range_open(d1, d2) == d1 > d2[1] /\ d1 < d2[2]

one_to_range_check(d1, d2) == d1 >= d2[1] /\ d1 <= d2[2]

\* a check that looks at d1's start only
range_to_range_start_only(d1, d2) == d1[1] >= d2[1] /\ d1[1] <= d2[2]

\* a check that takes intervals sharing one boundary instant as apart
range_to_range_strict(d1, d2) == d1[1] < d2[2] /\ d2[1] < d1[2]

range_to_range_check(d1, d2) ==
    IF d1[1] >= d2[1] /\ d1[1] <= d2[2] THEN TRUE
    ELSE IF d1[2] >= d2[1] /\ d1[1] <= d2[2] THEN TRUE
    ELSE FALSE

\* lines 552-577 for one row: "keep", "drop", or "TypeError" when dateutil is
\* handed None for start_datetime or end_datetime
temporal_row(q, row) ==
    IF row.single_datetime # NoText
    THEN IF q.kind = "range"
         THEN IF one_to_range_check(date_parser(row.single_datetime), q.v)
              THEN "keep" ELSE "drop"
         ELSE IF one_to_one_check(date_parser(row.single_datetime), q.v[1])
              THEN "keep" ELSE "drop"
    ELSE IF row.start_datetime = NoText \/ row.end_datetime = NoText
    THEN "TypeError"
    ELSE LET start == date_parser(row.start_datetime)
             end   == date_parser(row.end_datetime)
         IN  IF q.kind = "range"
             THEN IF range_to_range_check(<<start, end>>, q.v) THEN "keep" ELSE "drop"
             ELSE IF one_to_range_check(q.v[1], <<start, end>>) THEN "keep" ELSE "drop"

\* _filter_temporal_step, lines 530-579: the row ids it marks, or the error
\* that ends the scan before anything is marked
filter_temporal(rows, q) ==
    LET scan == SeqOfSet(Selected(rows))
    IN  IF \E n \in 1..Len(scan) : temporal_row(q, rows[scan[n]]) = "TypeError"
        THEN [ids |-> {}, err |-> "TypeError: Parser must be a string"]
        ELSE [ids |-> {RowId(scan, n) :
                         n \in {k \in 1..Len(scan) : temporal_row(q, rows[scan[k]]) = "drop"}},
              err |-> ""]

\* shapely: two boxes (minx, miny, maxx, maxy) intersect, boundaries included
BoxIntersects(a, b) ==
    /\ a[1] <= b[3] /\ b[1] <= a[3]
    /\ a[2] <= b[4] /\ b[2] <= a[4]

\* a query geometry is a set of boxes, the region they cover together
GeomIntersects(geom, b) == \E g \in geom : BoxIntersects(g, b)

\* item ids in the order ORDER BY item_id sorts them
ItemOrder == <<"i1", "i2", "i3">>
Rank(id) == CHOOSE r \in 1..Len(ItemOrder) : ItemOrder[r] = id

RECURSIVE SortByItem(_, _)
\* ORDER BY item_id over a set of row ids; equal item ids stay in rowid order
SortByItem(rows, S) ==
    IF S = {} THEN <<>>
    ELSE LET m == CHOOSE x \in S : \A y \in S :
                      \/ Rank(rows[x].item_id) < Rank(rows[y].item_id)
                      \/ (Rank(rows[x].item_id) = Rank(rows[y].item_id) /\ x <= y)
         IN  <<m>> \o SortByItem(rows, S \ {m})

RECURSIVE spatial_scan(_, _, _, _, _, _)
\* lines 418-444 (bbox) and 482-508 (intersects): the scan in batches of
\* ArraySize rows, each batch with a fresh cache of results keyed by item_id
spatial_scan(rows, scan, n, cache, geom, acc) ==
    IF n > Len(scan) THEN acc
    ELSE LET c0  == IF (n - 1) % ArraySize = 0 THEN [i \in {} |-> TRUE] ELSE cache
             row == rows[scan[n]]
         IN  IF row.bbox_json.null
             THEN spatial_scan(rows, scan, n + 1, c0, geom, acc)
             ELSE LET hit == IF row.item_id \in DOMAIN c0 THEN c0[row.item_id]
                             ELSE GeomIntersects(geom, JsonLoads(row.bbox_json))
                      c1  == [i \in DOMAIN c0 \cup {row.item_id} |->
                                 IF i = row.item_id THEN hit ELSE c0[i]]
                  IN  spatial_scan(rows, scan, n + 1, c1, geom,
                                   IF hit THEN acc ELSE acc \cup {RowId(scan, n)})

\* _filter_bbox_step / _filter_intersects_step: the row ids the step marks
filter_spatial(rows, geom) ==
    spatial_scan(rows, SortByItem(rows, Selected(rows)), 1, [i \in {} |-> TRUE], geom, {})

\* most threads the executor runs at once (ThreadPoolExecutor's max_workers)
MaxWorkers == 2
\* most documents in a catalog archive
MaxDocs == 2

NoError == [step |-> "", msg |-> ""]

StepOrder == <<"fetch_catalog", "unarchive_catalog", "create_asset_list",
               "filter_collections", "filter_temporal", "filter_bbox",
               "filter_intersects", "asset_download">>

\* CatalogDownloader.__init__, lines 97-101
ConfigError(c) ==
    IF c.bbox # NoBox /\ c.intersects.kind # "none"
    THEN "ValueError: Provider either bbox or intersects option (not both"
    ELSE IF c.intersects.kind = "nogeom"
    THEN "ValueError: intersects must be geojson with a geometry property"
    ELSE ""

\* a step list that puts the temporal filter before the identifier filter
StepListSwapped(c) ==
    <<"fetch_catalog", "unarchive_catalog">> \o
    (IF c.catalog_only THEN <<>>
     ELSE <<"create_asset_list">>
          \o (IF c.temporal_query.kind # "none" THEN <<"filter_temporal">> ELSE <<>>)
          \o (IF FilterGiven(c.collection_filter) THEN <<"filter_collections">> ELSE <<>>)
          \o (IF c.bbox # NoBox THEN <<"filter_bbox">> ELSE <<>>)
          \o (IF c.intersects.kind \in {"nogeom", "geom"} THEN <<"filter_intersects">> ELSE <<>>)
          \o <<"asset_download">>)

\* __call__, lines 753-780: the list of steps
StepList(c) ==
    <<"fetch_catalog", "unarchive_catalog">> \o
    (IF c.catalog_only THEN <<>>
     ELSE <<"create_asset_list">>
          \o (IF FilterGiven(c.collection_filter) THEN <<"filter_collections">> ELSE <<>>)
          \o (IF c.temporal_query.kind # "none" THEN <<"filter_temporal">> ELSE <<>>)
          \o (IF c.bbox # NoBox THEN <<"filter_bbox">> ELSE <<>>)
          \o (IF c.intersects.kind \in {"nogeom", "geom"} THEN <<"filter_intersects">> ELSE <<>>)
          \o <<"asset_download">>)

CurrentStep == IF cd_pc = "steps" /\ step_i <= Len(steps) THEN steps[step_i] ELSE ""

StepReturns ==
    /\ step_i' = step_i + 1
    /\ UNCHANGED <<cd_pc, cd_error>>

\* a step whose exception is recorded and swallowed
StepRaisesSwallowed(name, msg) ==
    /\ cd_error' = [step |-> name, msg |-> msg]
    /\ step_i' = step_i + 1
    /\ UNCHANGED cd_pc

StepRaises(name, msg) ==
    /\ cd_pc' = "failed"
    /\ cd_error' = [step |-> name, msg |-> msg]
    /\ UNCHANGED step_i

\* Dataset.download, models/dataset.py lines 338-355: output_dir is created and
\* the configuration object built; CatalogDownloader(config) comes next
DatasetDownload ==
    /\ cd_pc = "entry"
    /\ cd_pc' = "config"
    /\ fs' = fs \cup {"output_dir"}
    /\ UNCHANGED <<config, archive, disk, steps, step_i, trace, db, assets,
                   asset_list, futures, handled, err_report, cd_error, rdVars, dlVars,
                   dtVars, rtVars, gsVars, wkVars>>

\* __init__: the configuration is checked, then work_dir (which is asset_dir
\* when no asset_output_dir is given) is created with its parents
Construct ==
    /\ cd_pc = "config"
    /\ IF ConfigError(config) # ""
       THEN /\ cd_pc' = "failed"
            /\ cd_error' = [step |-> "__init__", msg |-> ConfigError(config)]
            /\ UNCHANGED fs
       ELSE /\ cd_pc' = "new"
            /\ fs' = fs \cup {"output_dir", "work_dir"}
            /\ UNCHANGED cd_error
    /\ UNCHANGED <<config, archive, disk, steps, step_i, trace, db, assets,
                   asset_list, futures, handled, err_report, rdVars, dlVars,
                   dtVars, rtVars, gsVars, wkVars>>

\* a run that builds the asset index whether or not only the catalog is wanted
init_db_always(c, d) == "open"

\* __call__, lines 757-759: _init_db is called unless catalog_only
init_db(c, d) == IF c.catalog_only THEN d ELSE "open"

\* __call__, lines 749-780: open err_report.csv, build steps, _init_db
Call ==
    /\ cd_pc = "new"
    /\ cd_pc' = "steps"
    /\ err_report' = <<>>
    /\ steps' = StepList(config)
    /\ step_i' = 1
    /\ db' = init_db(config, db)
    /\ fs' = fs \cup {"err_report.csv"}
                \cup (IF init_db(config, db) = "open" THEN {"mlhub_stac_assets.db"} ELSE {})
    /\ assets' = <<>>
    /\ UNCHANGED <<config, archive, disk, trace, asset_list, futures, handled,
                   cd_error, rdVars, dlVars,
                   dtVars, rtVars, gsVars, wkVars>>

\* _fetch_catalog_step: a ResumableDownloader run on the archive, which returns
\* or raises
FetchCatalogStep ==
    /\ CurrentStep = "fetch_catalog"
    /\ trace' = Append(trace, "fetch_catalog")
    /\ \E ok \in BOOLEAN :
         IF ok
         THEN /\ StepReturns
              /\ fs' = fs \cup {"catalog.tar.gz"}
         ELSE \* the downloader raised, before or after it opened the file
              /\ StepRaises("fetch_catalog", "transfer error")
              /\ \E opened \in BOOLEAN :
                    fs' = IF opened THEN fs \cup {"catalog.tar.gz"} ELSE fs
    /\ UNCHANGED <<config, archive, disk, steps, db, assets, asset_list, futures,
                   handled, err_report, rdVars, dlVars,
                   dtVars, rtVars, gsVars, wkVars>>

DocPath(d) == <<d.collection, d.id, d.file>>

\* an unarchive step that extracts every member whatever the policy
ExtractedAll(c, ar, dk) ==
    [catalog_json |-> dk.catalog_json \/ ar.catalog_json,
     docs |-> ar.docs \cup
              {d \in dk.docs : \A a \in ar.docs : DocPath(a) # DocPath(d)}]

\* _unarchive_catalog_step, lines 161-171
Extracted(c, ar, dk) ==
    IF c.if_exists = "overwrite"
    THEN [catalog_json |-> dk.catalog_json \/ ar.catalog_json,
          docs |-> ar.docs \cup
                   {d \in dk.docs : \A a \in ar.docs : DocPath(a) # DocPath(d)}]
    ELSE [catalog_json |-> dk.catalog_json \/ ar.catalog_json,
          docs |-> dk.docs \cup
                   {a \in ar.docs : \A d \in dk.docs : DocPath(a) # DocPath(d)}]

UnarchiveCatalogStep ==
    /\ CurrentStep = "unarchive_catalog"
    /\ trace' = Append(trace, "unarchive_catalog")
    /\ disk' = Extracted(config, archive, disk)
    /\ IF disk'.catalog_json THEN StepReturns
       ELSE StepRaises("unarchive_catalog", "AssertionError: catalog.json")
    /\ UNCHANGED <<config, archive, steps, db, assets, asset_list, futures,
                   handled, err_report, fs, rdVars, dlVars,
                   dtVars, rtVars, gsVars, wkVars>>

RECURSIVE Perms(_)
\* every order in which iglob may yield a set of documents
Perms(S) ==
    IF S = {} THEN {<<>>}
    ELSE UNION {{<<d>> \o p : p \in Perms(S \ {d})} : d \in S}

\* _create_asset_list_step
CreateAssetListStep ==
    /\ CurrentStep = "create_asset_list"
    /\ trace' = Append(trace, "create_asset_list")
    /\ \E order \in Perms(disk.docs) :
         LET r == create_asset_list(order, 1, config.collection_filter, assets)
         IN  /\ assets' = r.rows
             /\ IF r.err = "" THEN StepReturns
                ELSE StepRaises("create_asset_list", r.err)
    /\ UNCHANGED <<config, archive, disk, steps, db, asset_list, futures,
                   handled, err_report, fs, rdVars, dlVars,
                   dtVars, rtVars, gsVars, wkVars>>

\* the tail every filter step shares: mark, count, raise on zero
MarkAndCount(name, row_ids, what) ==
    /\ assets' = mark_assets_filtered(assets, row_ids)
    /\ IF fetch_unfiltered_count(assets') = 0
       THEN StepRaises(name, what)
       ELSE StepReturns

\* _filter_collections_step
FilterCollectionsStep ==
    /\ CurrentStep = "filter_collections"
    /\ trace' = Append(trace, "filter_collections")
    /\ MarkAndCount("filter_collections",
                    filter_collections(assets, config.collection_filter.map),
                    "after filtering collections_ids and asset keys, zero assets to download")
    /\ UNCHANGED <<config, archive, disk, steps, db, asset_list, futures,
                   handled, err_report, fs, rdVars, dlVars,
                   dtVars, rtVars, gsVars, wkVars>>

\* _filter_temporal_step
FilterTemporalStep ==
    /\ CurrentStep = "filter_temporal"
    /\ trace' = Append(trace, "filter_temporal")
    /\ LET r == filter_temporal(assets, config.temporal_query)
       IN  IF r.err # ""
           THEN /\ StepRaises("filter_temporal", r.err)
                /\ UNCHANGED assets
           ELSE MarkAndCount("filter_temporal", r.ids,
                    "after filtering by temporal query, zero assets to download")
    /\ UNCHANGED <<config, archive, disk, steps, db, asset_list, futures,
                   handled, err_report, fs, rdVars, dlVars,
                   dtVars, rtVars, gsVars, wkVars>>

\* _filter_bbox_step
FilterBboxStep ==
    /\ CurrentStep = "filter_bbox"
    /\ trace' = Append(trace, "filter_bbox")
    /\ MarkAndCount("filter_bbox", filter_spatial(assets, {config.bbox}),
                    "after filtering by bounding box, zero assets to download")
    /\ UNCHANGED <<config, archive, disk, steps, db, asset_list, futures,
                   handled, err_report, fs, rdVars, dlVars,
                   dtVars, rtVars, gsVars, wkVars>>

\* _filter_intersects_step
FilterIntersectsStep ==
    /\ CurrentStep = "filter_intersects"
    /\ trace' = Append(trace, "filter_intersects")
    /\ MarkAndCount("filter_intersects",
                    filter_spatial(assets, config.intersects.geometry),
                    "after filtering by intersects, zero assets to download")
    /\ UNCHANGED <<config, archive, disk, steps, db, asset_list, futures,
                   handled, err_report, fs, rdVars, dlVars,
                   dtVars, rtVars, gsVars, wkVars>>

\* ------------------------------------------------- download step
RECURSIVE AllUnfiltered(_, _, _, _)
\* an asset list with one record per unfiltered row, whatever its path
AllUnfiltered(rows, i, seen, acc) ==
    IF i > Len(rows) THEN acc
    ELSE IF rows[i].filtered THEN AllUnfiltered(rows, i + 1, seen, acc)
    ELSE AllUnfiltered(rows, i + 1, seen,
             Append(acc, [asset_key |-> rows[i].asset_key,
                          asset_save_path |-> rows[i].asset_save_path,
                          asset_url |-> rows[i].asset_url,
                          collection_id |-> rows[i].collection_id,
                          item_id |-> rows[i].item_id]))

RECURSIVE UniqueAssets(_, _, _, _)
\* _asset_download_step, lines 640-670: the unfiltered rows in scan order, one
\* record per asset_save_path (the first row that has it)
UniqueAssets(rows, i, seen, acc) ==
    IF i > Len(rows) THEN acc
    ELSE IF rows[i].filtered \/ rows[i].asset_save_path \in seen
    THEN UniqueAssets(rows, i + 1, seen, acc)
    ELSE UniqueAssets(rows, i + 1, seen \cup {rows[i].asset_save_path},
             Append(acc, [asset_key |-> rows[i].asset_key,
                          asset_save_path |-> rows[i].asset_save_path,
                          asset_url |-> rows[i].asset_url,
                          collection_id |-> rows[i].collection_id,
                          item_id |-> rows[i].item_id]))

\* the rows of mlhub_stac_assets.db that are committed, which is what the
\* file holds once the process has ended: the INSERTs and UPDATEs of the steps
\* run in a transaction that only _finalize_db commits (the commit of lines
\* 281-282 and 317-318 needs a document with 1000 assets)
committed_rows(d, rows) == IF d = "closed" THEN rows ELSE <<>>

\* a download step that leaves the index open for the workers
finalize_db_left_open(c, d) == d

\* _finalize_db
finalize_db(c, d) == IF ~c.catalog_only THEN "closed" ELSE d

\* _asset_download_step, lines 640-687: build the list, close the index and
\* submit one future per record (none in the test environment's dry run)
AssetDownloadBegin ==
    /\ CurrentStep = "asset_download"
    /\ trace' = Append(trace, "asset_download")
    /\ asset_list' = UniqueAssets(assets, 1, {}, <<>>)
    /\ db' = finalize_db(config, db)
    /\ handled' = {}
    /\ IF config.dry_run
       THEN /\ futures' = <<>>
            /\ StepReturns
       ELSE /\ futures' = [k \in 1..Len(asset_list') |-> "queued"]
            /\ cd_pc' = "download"
            /\ UNCHANGED <<step_i, cd_error>>
    /\ UNCHANGED <<config, archive, disk, steps, assets, err_report, fs, rdVars, dlVars,
                   dtVars, rtVars, gsVars, wkVars>>

Running == {k \in DOMAIN futures : futures[k] = "running"}
Queued == {k \in DOMAIN futures : futures[k] = "queued"}

\* a pool that starts a thread for every submitted call
WorkerStartUnbounded ==
    /\ cd_pc = "download"
    /\ Queued # {}
    /\ LET k == CHOOSE q \in Queued : \A o \in Queued : q <= o
       IN  futures' = [futures EXCEPT ![k] = "running"]
    /\ UNCHANGED <<config, archive, disk, cd_pc, steps, step_i, trace, db, assets,
                   asset_list, handled, err_report, cd_error, fs, rdVars, dlVars,
                   dtVars, rtVars, gsVars, wkVars>>

\* a pool thread takes the oldest queued call of _download_asset_worker
WorkerStart ==
    /\ cd_pc = "download"
    /\ Queued # {}
    /\ Cardinality(Running) < MaxWorkers
    /\ LET k == CHOOSE q \in Queued : \A o \in Queued : q <= o
       IN  futures' = [futures EXCEPT ![k] = "running"]
    /\ UNCHANGED <<config, archive, disk, cd_pc, steps, step_i, trace, db, assets,
                   asset_list, handled, err_report, cd_error, fs, rdVars, dlVars,
                   dtVars, rtVars, gsVars, wkVars>>

\* _download_asset_worker, lines 614-636, returns or raises: the outcome is
\* kept in the future
WorkerDone ==
    /\ cd_pc = "download"
    /\ \E k \in Running : \E outcome \in {"ok", "raised"} :
         futures' = [futures EXCEPT ![k] = outcome]
    /\ UNCHANGED <<config, archive, disk, cd_pc, steps, step_i, trace, db, assets,
                   asset_list, handled, err_report, cd_error, fs, rdVars, dlVars,
                   dtVars, rtVars, gsVars, wkVars>>

\* lines 699-706: the row of a failed asset
ErrRow(c, rec) ==
    [error |-> "transfer error", dataset_id |-> c.dataset_id,
     collection_id |-> rec.collection_id, item_id |-> rec.item_id,
     asset_key |-> rec.asset_key, asset_url |-> rec.asset_url]

\* a loop without the try/except: the result() of a failed future raises out
\* of the step
CollectReraises ==
    /\ cd_pc = "download"
    /\ \E k \in DOMAIN futures \ handled :
         /\ futures[k] \in {"ok", "raised"}
         /\ handled' = handled \cup {k}
         /\ IF futures[k] = "raised"
            THEN /\ cd_pc' = "failed"
                 /\ cd_error' = [step |-> "asset_download", msg |-> "transfer error"]
            ELSE UNCHANGED <<cd_pc, cd_error>>
    /\ UNCHANGED <<config, archive, disk, steps, step_i, trace, db, assets,
                   asset_list, futures, err_report, fs, rdVars, dlVars,
                   dtVars, rtVars, gsVars, wkVars>>

\* a loop that rewrites the report for every failure instead of appending
CollectOverwrites ==
    /\ cd_pc = "download"
    /\ \E k \in DOMAIN futures \ handled :
         /\ futures[k] \in {"ok", "raised"}
         /\ handled' = handled \cup {k}
         /\ err_report' = IF futures[k] = "raised"
                          THEN <<ErrRow(config, asset_list[k])>>
                          ELSE err_report
    /\ UNCHANGED <<config, archive, disk, cd_pc, steps, step_i, trace, db, assets,
                   asset_list, futures, cd_error, fs, rdVars, dlVars,
                   dtVars, rtVars, gsVars, wkVars>>

\* lines 688-710: the coordinating thread takes one finished future from
\* as_completed and writes a row if its result() raises
Collect ==
    /\ cd_pc = "download"
    /\ \E k \in DOMAIN futures \ handled :
         /\ futures[k] \in {"ok", "raised"}
         /\ handled' = handled \cup {k}
         /\ err_report' = IF futures[k] = "raised"
                          THEN Append(err_report, ErrRow(config, asset_list[k]))
                          ELSE err_report
    /\ UNCHANGED <<config, archive, disk, cd_pc, steps, step_i, trace, db, assets,
                   asset_list, futures, cd_error, fs, rdVars, dlVars,
                   dtVars, rtVars, gsVars, wkVars>>

\* as_completed is exhausted and the executor shut down: the step returns
AssetDownloadEnd ==
    /\ cd_pc = "download"
    /\ handled = DOMAIN futures
    /\ cd_pc' = "steps"
    /\ step_i' = step_i + 1
    /\ UNCHANGED <<config, archive, disk, steps, trace, db, assets, asset_list,
                   futures, handled, err_report, cd_error, fs, rdVars, dlVars,
                   dtVars, rtVars, gsVars, wkVars>>

\* the size of a report whose rows are still in the writer's buffer
getsizeUnflushed(rows) == 0

\* os.path.getsize(err_report_path): a row is five separators and a line end
\* at the least
getsize(rows) == 7 * Len(rows)

\* __call__, lines 786-797: every step returned
Finish ==
    /\ cd_pc = "steps"
    /\ step_i > Len(steps)
    /\ IF getsize(err_report) > 0
       THEN /\ cd_pc' = "failed"
            /\ cd_error' = [step |-> "__call__",
                            msg |-> "IOError: asset download error(s) were logged to err_report.csv"]
       ELSE /\ cd_pc' = "done"
            /\ UNCHANGED cd_error
    /\ UNCHANGED <<config, archive, disk, steps, step_i, trace, db, assets,
                   asset_list, futures, handled, err_report, fs, rdVars, dlVars,
                   dtVars, rtVars, gsVars, wkVars>>

\* ------------------------------------------------- inputs
Href(name, suffix) ==
    [scheme |-> "https", bucket |-> "host", name |-> name, suffix |-> suffix,
     marks |-> IF suffix = ".tiff" THEN {".tif", ".tiff"}
               ELSE IF suffix = ".jpeg" THEN {".jpeg"}
               ELSE IF \E i \in 1..Len(KnownExts) : KnownExts[i] = suffix THEN {suffix}
               ELSE {}]

Asset(key, suffix) == [key |-> key, href |-> Href(key, suffix)]

CollDoc(id, has, as) ==
    [file |-> "collection.json", type |-> "Collection", id |-> id,
     collection |-> id, has_assets |-> has, assets |-> as, bbox |-> NoBox,
     geometry |-> FALSE, datetime |-> NoText, start_datetime |-> NoText,
     end_datetime |-> NoText]

ItemDoc(col, id, as, bbox, geometry, dt, start, end) ==
    [file |-> "stac.json", type |-> "Feature", id |-> id, collection |-> col,
     has_assets |-> TRUE, assets |-> as, bbox |-> bbox, geometry |-> geometry,
     datetime |-> dt, start_datetime |-> start, end_datetime |-> end]

BoxWest == <<0, 0, 1, 1>>
BoxEast == <<3, 3, 4, 4>>

\* the documents the catalogs of Spec are made of
PipelineDocs ==
    {CollDoc("colA", TRUE, <<Asset("documentation", ".pdf")>>),
     ItemDoc("colA", "i1", <<Asset("B02", ".tif"), Asset("documentation", ".pdf")>>,
             BoxWest, TRUE, DateText(1), NoText, NoText),
     ItemDoc("colA", "i2", <<Asset("B02", ".tif"), Asset("documentation", ".pdf")>>,
             BoxEast, FALSE, NoText, DateText(0), DateText(1)),
     ItemDoc("colB", "i1", <<Asset("labels", ".json")>>,
             BoxEast, FALSE, DateText(2), NoText, NoText),
     \* geometry without bbox
     ItemDoc("colB", "i2", <<Asset("labels", ".json")>>,
             NoBox, TRUE, DateText(1), NoText, NoText),
     \* neither bbox nor any datetime
     ItemDoc("colB", "i3", <<Asset("labels", ".json")>>,
             NoBox, FALSE, NoText, NoText, NoText)}

PipelineArchives ==
    {[catalog_json |-> FALSE, docs |-> {}]} \cup
    {[catalog_json |-> TRUE, docs |-> D] :
        D \in {S \in SUBSET PipelineDocs : Cardinality(S) <= MaxDocs}}

NoFilter == [given |-> FALSE, map |-> [c \in {} |-> {}]]
Allow(m) == [given |-> TRUE, map |-> m]
NoQuery == [kind |-> "none", v |-> <<>>]
NoIntersects == [kind |-> "none", geometry |-> {}]

CollectionFilters ==
    {NoFilter, Allow([c \in {} |-> {}]), Allow([c \in {"colA"} |-> {}]),
     Allow([c \in {"colA"} |-> {"B02"}]), Allow([c \in {"colB"} |-> {"B02"}])}

TemporalQueries ==
    {NoQuery, [kind |-> "instant", v |-> <<1>>], [kind |-> "range", v |-> <<0, 1>>]}

\* bbox and intersects together
SpatialQueries ==
    {[bbox |-> NoBox, intersects |-> NoIntersects],
     [bbox |-> <<0, 0, 2, 2>>, intersects |-> NoIntersects],
     [bbox |-> NoBox, intersects |-> [kind |-> "geom", geometry |-> {<<3, 3, 5, 5>>}]],
     [bbox |-> NoBox, intersects |-> [kind |-> "empty", geometry |-> {}]],
     [bbox |-> NoBox, intersects |-> [kind |-> "nogeom", geometry |-> {}]],
     [bbox |-> <<0, 0, 2, 2>>,
      intersects |-> [kind |-> "geom", geometry |-> {<<3, 3, 5, 5>>}]]}

Config(co, dry, cf, tq, sq) ==
    [dataset_id |-> "ds", catalog_only |-> co, dry_run |-> dry, if_exists |-> "resume",
     collection_filter |-> cf, temporal_query |-> tq, bbox |-> sq.bbox,
     intersects |-> sq.intersects]

PipelineConfigs ==
    {Config(co, dry, cf, tq, sq) :
        co \in BOOLEAN, dry \in BOOLEAN, cf \in CollectionFilters,
        tq \in TemporalQueries, sq \in SpatialQueries}

\* ------------------------------------------------- _download (util.py)
\* most range requests in flight (ThreadPoolExecutor(max_workers=20), scaled
\* to the model's resources)
MaxFetch == 2

RECURSIVE get_ranges(_, _, _)
\* _get_ranges, lines 58-65: at least one range, each <<first, last>>
get_ranges(total_size, interval, start) ==
    LET end == Min(start + interval - 1, total_size)
    IN  <<<<start, end>>>> \o
        (IF start + interval >= total_size THEN <<>>
         ELSE get_ranges(total_size, interval, start + interval))

\* the state of one range's fetch and the content it returned
Fetch(st, content) == [st |-> st, content |-> content]

\* what session.get(...).content can be for `Range: bytes=first-last`: the
\* bytes asked for, cut at the end of the resource. A range that starts behind
\* the end is answered with 416, and for a range whose last is before its
\* first the server either ignores the header and sends the whole resource or
\* answers 416; Session.request (session.py line 120) raises for a 416
fetch_range(r) ==
    IF r[2] < r[1] THEN {Fetch("done", dl_remote), Fetch("raised", <<>>)}
    ELSE IF r[1] >= Len(dl_remote) THEN {Fetch("raised", <<>>)}
    ELSE {Fetch("done", SubSeq(dl_remote, r[1] + 1, Min(r[2] + 1, Len(dl_remote))))}

\* a request as the history keeps it: the method and the Range header's
\* <<first, last>> (<<>> without the header)
Req(method, range) == [method |-> method, range |-> range]

\* lines 82-83: the HEAD request, sent before the file is looked for
HeadRequest(file, policy) == <<Req("HEAD", <<>>)>>

\* _download, lines 54-111: HEAD the url, look for the file, decide, open the
\* file and hand every range to the executor
DlCall ==
    /\ dl_pc = "idle"
    /\ dl_reqs' = dl_reqs \o HeadRequest(dl_out, dl_if_exists)
    /\ UNCHANGED <<dl_remote, dl_if_exists, dl_chunk, dl_out0, dl_next>>
    /\ \E net \in {"ok", "fail"} :
         IF net = "fail"
         THEN \* r.raise_for_status()
              /\ dl_pc' = "failed"
              /\ UNCHANGED <<dl_out, dl_ranges, dl_got>>
         ELSE LET content_length == Len(dl_remote)
                  resume == dl_out.exists /\ dl_if_exists = "resume"
                  start  == IF resume THEN Len(dl_out.data) ELSE 0
              IN  IF dl_out.exists
                     /\ (dl_if_exists = "skip" \/ (resume /\ start = content_length))
                  THEN /\ dl_pc' = "done"
                       /\ UNCHANGED <<dl_out, dl_ranges, dl_got>>
                  ELSE /\ dl_pc' = "fetch"
                       /\ dl_out' = [exists |-> TRUE,
                                     data |-> IF resume THEN dl_out.data ELSE <<>>]
                       /\ dl_ranges' = get_ranges(content_length, dl_chunk, start)
                       /\ dl_got' = [k \in 1..Len(dl_ranges') |-> Fetch("queued", <<>>)]
    /\ UNCHANGED <<rdVars, cdVars,
                   dtVars, rtVars, gsVars, wkVars>>

\* a pool thread takes the oldest range not yet started and sends its request
DlFetchStart ==
    /\ dl_pc = "fetch"
    /\ Cardinality({k \in DOMAIN dl_got : dl_got[k].st = "running"}) < MaxFetch
    /\ \E k \in DOMAIN dl_got :
         /\ dl_got[k].st = "queued"
         /\ \A j \in 1..(k - 1) : dl_got[j].st # "queued"
         /\ dl_got' = [dl_got EXCEPT ![k] = Fetch("running", <<>>)]
         /\ dl_reqs' = Append(dl_reqs, Req("GET", dl_ranges[k]))
    /\ UNCHANGED <<dl_remote, dl_if_exists, dl_chunk, dl_out, dl_out0, dl_pc,
                   dl_ranges, dl_next, rdVars, cdVars,
                   dtVars, rtVars, gsVars, wkVars>>

\* _fetch_range, lines 67-69, returns the content of its response, or raises
\* when the connection fails
DlFetchDone ==
    /\ dl_pc = "fetch"
    /\ \E k \in DOMAIN dl_got :
         /\ dl_got[k].st = "running"
         /\ \/ \E got \in fetch_range(dl_ranges[k]) :
                 dl_got' = [dl_got EXCEPT ![k] = got]
            \/ dl_got' = [dl_got EXCEPT ![k] = Fetch("raised", <<>>)]
    /\ UNCHANGED <<dl_remote, dl_if_exists, dl_chunk, dl_out, dl_out0, dl_pc,
                   dl_reqs, dl_ranges, dl_next, rdVars, cdVars,
                   dtVars, rtVars, gsVars, wkVars>>

\* lines 114-119: executor.map yields the results in the order of the ranges;
\* the next chunk is written, or its exception leaves the function
DlWrite ==
    /\ dl_pc = "fetch"
    /\ dl_next <= Len(dl_ranges)
    /\ dl_got[dl_next].st \in {"done", "raised"}
    /\ IF dl_got[dl_next].st = "raised"
       THEN /\ dl_pc' = "failed"
            /\ UNCHANGED <<dl_out, dl_next>>
       ELSE /\ dl_out' = [dl_out EXCEPT !.data = @ \o dl_got[dl_next].content]
            /\ dl_next' = dl_next + 1
            /\ UNCHANGED dl_pc
    /\ UNCHANGED <<dl_remote, dl_if_exists, dl_chunk, dl_out0, dl_reqs,
                   dl_ranges, dl_got, rdVars, cdVars,
                   dtVars, rtVars, gsVars, wkVars>>

\* line 121: every chunk is written, the path is returned
DlReturn ==
    /\ dl_pc = "fetch"
    /\ dl_next > Len(dl_ranges)
    /\ dl_pc' = "done"
    /\ UNCHANGED <<dl_remote, dl_if_exists, dl_chunk, dl_out, dl_out0, dl_reqs,
                   dl_ranges, dl_got, dl_next, rdVars, cdVars,
                   dtVars, rtVars, gsVars, wkVars>>

ParkedDL ==
    /\ dl_remote = <<>> /\ dl_if_exists = "resume" /\ dl_chunk = 1
    /\ dl_out = NoFile /\ dl_out0 = NoFile /\ dl_pc = "parked" /\ dl_reqs = <<>>
    /\ dl_ranges = <<>> /\ dl_got = <<>> /\ dl_next = 1

ParkedDT ==
    /\ dt_fn = "" /\ dt_d1 = <<>> /\ dt_d2 = <<>> /\ dt_pc = "parked" /\ dt_out = FALSE

ParkedWK ==
    /\ wk_rec = <<>> /\ wk_pc = "parked" /\ wk_url = <<>> /\ wk_report = <<>>

NoSession == [kind |-> "", key |-> "", source |-> ""]

ParkedGS ==
    /\ gs_api_key = "" /\ gs_env_key = "" /\ gs_profile = "" /\ gs_env_profile = ""
    /\ gs_file = [exists |-> FALSE, keys |-> <<>>] /\ gs_pc = "parked" /\ gs_out = NoSession

ParkedRT ==
    /\ rt_session = "" /\ rt_left = 0 /\ rt_history = <<>> /\ rt_pc = "parked"

\* the downloader is not running while the pipeline is looked at, and back
ParkedRD ==
    /\ remote = <<>> /\ srv_md5 = "none" /\ if_exists = "resume"
    /\ md5_check = FALSE /\ chunk_size = 1 /\ out_file = NoFile
    /\ checksum_file = NoChecksum /\ rd_pc = "parked" /\ pos = 0
    /\ content_len = 0 /\ requests = 0 /\ rd_result = "none" /\ rd_error = ""
    /\ rd_fresh = TRUE /\ file0 = NoFile /\ req_range = -1

ParkedCD ==
    /\ config = Config(TRUE, FALSE, NoFilter, NoQuery,
                       [bbox |-> NoBox, intersects |-> NoIntersects])
    /\ archive = [catalog_json |-> FALSE, docs |-> {}]
    /\ disk = [catalog_json |-> FALSE, docs |-> {}]
    /\ cd_pc = "parked" /\ steps = <<>> /\ step_i = 1 /\ trace = <<>>
    /\ db = "none" /\ assets = <<>> /\ asset_list = <<>> /\ futures = <<>>
    /\ handled = {} /\ err_report = <<>> /\ cd_error = NoError /\ fs = {}

InitCD(configs, archives) ==
    /\ config \in configs
    /\ archive \in archives
    /\ disk = [catalog_json |-> FALSE, docs |-> {}]
    /\ cd_pc \in {"entry", "config"} /\ steps = <<>> /\ step_i = 1 /\ trace = <<>>
    /\ db = "none" /\ assets = <<>> /\ asset_list = <<>> /\ futures = <<>>
    /\ handled = {} /\ err_report = <<>> /\ cd_error = NoError /\ fs = {}

Init ==
    ParkedRD /\ ParkedDL /\ ParkedDT /\ ParkedRT /\ ParkedGS /\ ParkedWK /\ InitCD(PipelineConfigs, PipelineArchives)

Next ==
    \/ DatasetDownload \/ Construct \/ Call \/ FetchCatalogStep \/ UnarchiveCatalogStep
    \/ CreateAssetListStep \/ FilterCollectionsStep \/ FilterTemporalStep
    \/ FilterBboxStep \/ FilterIntersectsStep \/ AssetDownloadBegin
    \/ WorkerStart \/ WorkerDone \/ Collect \/ AssetDownloadEnd \/ Finish

Spec == Init /\ [][Next]_vars

InitRD ==
    /\ remote \in SeqsUpTo(Bytes, MaxLen)
    /\ srv_md5 \in {"none", "valid", "notb64"}
    /\ if_exists \in {"resume", "skip", "overwrite"}
    /\ md5_check \in BOOLEAN
    /\ chunk_size \in 1..MaxChunk
    /\ out_file \in LocalFiles
    /\ checksum_file \in ChecksumFiles(remote)
    /\ rd_pc = "idle"
    /\ pos = 0
    /\ content_len = 0
    /\ requests = 0
    /\ rd_result = "none"
    /\ rd_error = ""
    /\ rd_fresh = (~out_file.exists /\ ~checksum_file.exists)
    /\ file0 = out_file
    /\ req_range = -1
    /\ ParkedCD /\ ParkedDL /\ ParkedDT /\ ParkedRT /\ ParkedGS /\ ParkedWK

NextRD == RunOpen \/ RunRequest \/ RunWrite \/ RunFinish \/ RunInterrupt

SpecRD == InitRD /\ [][NextRD]_vars

InitDL ==
    /\ dl_remote \in SeqsUpTo(Bytes, MaxLen)
    /\ dl_if_exists \in {"skip", "overwrite", "resume"}
    /\ dl_chunk \in 1..MaxChunk
    /\ dl_out \in LocalFiles
    /\ dl_out0 = dl_out
    /\ dl_pc = "idle" /\ dl_reqs = <<>>
    /\ dl_ranges = <<>> /\ dl_got = <<>> /\ dl_next = 1
    /\ ParkedRD /\ ParkedCD /\ ParkedDT /\ ParkedRT /\ ParkedGS /\ ParkedWK

NextDL == DlCall \/ DlFetchStart \/ DlFetchDone \/ DlWrite \/ DlReturn

SpecDL == InitDL /\ [][NextDL]_vars

\* ---- the pipeline over catalogs of dated items, with a temporal query only
\* the latest instant of an item or a query
MaxTime == 2

Times == 0..MaxTime

TimeRanges == {p \in Times \X Times : p[1] <= p[2]}

\* an item's datetime properties: an instant, or an interval with start <= end
TimeSpecs ==
    {[datetime |-> DateText(t), start |-> NoText, end |-> NoText] : t \in Times}
    \cup {[datetime |-> NoText, start |-> DateText(p[1]), end |-> DateText(p[2])] :
             p \in TimeRanges}

\* catalogs of one or two items of one collection, each with one asset
TemporalArchives ==
    {[catalog_json |-> TRUE,
      docs |-> {ItemDoc("colA", ItemOrder[k], <<Asset("B02", ".tif")>>, BoxWest, FALSE,
                        f[k].datetime, f[k].start, f[k].end) : k \in DOMAIN f}] :
        f \in UNION {[1..n -> TimeSpecs] : n \in 1..2}}

TemporalConfigs ==
    {Config(FALSE, TRUE, NoFilter, tq, [bbox |-> NoBox, intersects |-> NoIntersects]) :
        tq \in {[kind |-> "instant", v |-> <<t>>] : t \in Times}
               \cup {[kind |-> "range", v |-> p] : p \in TimeRanges}}

InitTemporal ==
    ParkedRD /\ ParkedDL /\ ParkedDT /\ ParkedRT /\ ParkedGS /\ ParkedWK /\ InitCD(TemporalConfigs, TemporalArchives)

NextTemporal ==
    \/ DatasetDownload \/ Construct \/ Call \/ FetchCatalogStep
    \/ UnarchiveCatalogStep \/ CreateAssetListStep \/ FilterTemporalStep
    \/ AssetDownloadBegin \/ Finish

SpecTemporal == InitTemporal /\ [][NextTemporal]_vars

\* ---- the pipeline up to the asset list, over catalogs whose items share
\* asset keys, item ids and collections in every way the layout tells apart
IndexDocs ==
    {CollDoc("colA", TRUE, <<Asset("documentation", ".pdf"), Asset("labels", ".json")>>),
     ItemDoc("colA", "i1", <<Asset("B02", ".tif"), Asset("documentation", ".pdf")>>,
             BoxWest, FALSE, DateText(1), NoText, NoText),
     \* the common asset under another extension
     ItemDoc("colA", "i2", <<Asset("B02", ".tiff"), Asset("documentation", ".json")>>,
             BoxWest, FALSE, DateText(1), NoText, NoText),
     \* an item named as the directory of the common assets
     ItemDoc("colA", "_common", <<Asset("labels", ".json"), Asset("readme", ".pdf")>>,
             BoxWest, FALSE, DateText(1), NoText, NoText),
     ItemDoc("colA", "i3", <<Asset("labels", ".json"), Asset("readme", ".pdf")>>,
             BoxWest, FALSE, DateText(1), NoText, NoText),
     ItemDoc("colB", "i1", <<Asset("B02", ".tif"), Asset("documentation", ".pdf")>>,
             BoxWest, FALSE, DateText(1), NoText, NoText)}

IndexArchives ==
    {[catalog_json |-> TRUE, docs |-> D] :
        D \in {S \in SUBSET IndexDocs : S # {} /\ Cardinality(S) <= MaxDocs}}

IndexConfigs ==
    {Config(FALSE, TRUE, NoFilter, NoQuery, [bbox |-> NoBox, intersects |-> NoIntersects])}

InitIndex ==
    ParkedRD /\ ParkedDL /\ ParkedDT /\ ParkedRT /\ ParkedGS /\ ParkedWK /\ InitCD(IndexConfigs, IndexArchives)

NextIndex ==
    \/ DatasetDownload \/ Construct \/ Call \/ FetchCatalogStep
    \/ UnarchiveCatalogStep \/ CreateAssetListStep \/ AssetDownloadBegin \/ Finish

SpecIndex == InitIndex /\ [][NextIndex]_vars

\* ---- the pipeline without filters, its transfers run by the pool: an idle
\* pool thread takes queued work, a transfer returns or raises, and the
\* coordinating thread goes on whenever it can
PoolConfigs ==
    {Config(FALSE, FALSE, NoFilter, NoQuery, [bbox |-> NoBox, intersects |-> NoIntersects])}

InitPool ==
    ParkedRD /\ ParkedDL /\ ParkedDT /\ ParkedRT /\ ParkedGS /\ ParkedWK /\ InitCD(PoolConfigs, PipelineArchives)

NextPool ==
    \/ DatasetDownload \/ Construct \/ Call \/ FetchCatalogStep
    \/ UnarchiveCatalogStep \/ CreateAssetListStep \/ AssetDownloadBegin
    \/ WorkerStart \/ WorkerDone \/ Collect \/ AssetDownloadEnd \/ Finish

SpecPool ==
    /\ InitPool /\ [][NextPool]_vars
    /\ WF_vars(WorkerStart) /\ WF_vars(WorkerDone)
    /\ WF_vars(Collect) /\ WF_vars(AssetDownloadEnd)

\* ---- one session.get of ResumableDownloader.run (line 138), through the
\* session the downloader was given or made
\* Retry(total=5, ...) of the downloader's own session (line 81)
RetryTotal == 5
\* Retry(total=None, connect=5, ...) of the MLHub session (session.py line 63)
RetryConnect == 5

StatusForcelist == {429, 500, 502, 503, 504}

\* what one attempt may meet: 0 is a connection that could not be made
Statuses == {0, 200, 404} \cup StatusForcelist

\* __init__, lines 76-89: _fetch_catalog_step passes config.mlhub_api_session,
\* _download_asset_worker passes no session and the downloader makes its own
RetriesOf(session) == IF session = "mlhub" THEN RetryConnect ELSE RetryTotal

\* urllib3's Retry.is_retry and connection retries: which outcomes of an
\* attempt the session's adapter retries
Retried(session, st) ==
    \/ st = 0
    \/ session = "own" /\ st \in StatusForcelist

\* run() calls session.get
RtGet ==
    /\ rt_pc = "idle"
    /\ rt_pc' = "sending"
    /\ UNCHANGED <<rt_session, rt_left, rt_history, rdVars, cdVars, dlVars, dtVars, gsVars, wkVars>>

\* one attempt is answered: the adapter retries it while its Retry object is
\* not exhausted (Retry.increment raises MaxRetryError below zero); a status
\* of 400 or more that is not retried is raised by raise_for_status (line 139,
\* session.py Session.request); anything else is returned
RtRespond ==
    /\ rt_pc = "sending"
    /\ \E st \in Statuses :
         /\ rt_history' = Append(rt_history, st)
         /\ IF Retried(rt_session, st)
            THEN IF rt_left > 0
                 THEN /\ rt_left' = rt_left - 1
                      /\ UNCHANGED rt_pc
                 ELSE /\ rt_pc' = "raised"
                      /\ UNCHANGED rt_left
            ELSE /\ rt_pc' = IF st >= 400 THEN "raised" ELSE "returned"
                 /\ UNCHANGED rt_left
    /\ UNCHANGED <<rt_session, rdVars, cdVars, dlVars, dtVars, gsVars, wkVars>>

InitRT ==
    /\ rt_session \in {"mlhub", "own"}
    /\ rt_left = RetriesOf(rt_session)
    /\ rt_history = <<>>
    /\ rt_pc = "idle"
    /\ ParkedRD /\ ParkedCD /\ ParkedDL /\ ParkedDT /\ ParkedGS /\ ParkedWK

NextRT == RtGet \/ RtRespond

SpecRT == InitRT /\ [][NextRT]_vars

\* ---- a catalog-only run into an output directory that earlier runs have
\* left files in, under each policy
\* the members of the archives: the item i1 as the server has it now
UnarchiveDocs ==
    {CollDoc("colA", FALSE, <<>>),
     ItemDoc("colA", "i1", <<Asset("B02", ".tif")>>, BoxWest, FALSE,
             DateText(1), NoText, NoText),
     ItemDoc("colA", "i2", <<Asset("B02", ".tif")>>, BoxEast, FALSE,
             DateText(2), NoText, NoText)}

\* the files an earlier run extracted: i1 from an older archive, i2 as it is
OldDocs ==
    {ItemDoc("colA", "i1", <<Asset("B02", ".tif")>>, BoxWest, FALSE,
             DateText(0), NoText, NoText),
     ItemDoc("colA", "i2", <<Asset("B02", ".tif")>>, BoxEast, FALSE,
             DateText(2), NoText, NoText)}

UnarchiveArchives ==
    {[catalog_json |-> cj, docs |-> D] :
        cj \in BOOLEAN,
        D \in {S \in SUBSET UnarchiveDocs : Cardinality(S) <= MaxDocs}}

UnarchiveDisks ==
    {[catalog_json |-> cj, docs |-> D] : cj \in BOOLEAN, D \in SUBSET OldDocs}

UnarchiveConfigs ==
    {[Config(TRUE, FALSE, NoFilter, NoQuery, [bbox |-> NoBox, intersects |-> NoIntersects])
         EXCEPT !.if_exists = p] : p \in {"resume", "skip", "overwrite"}}

InitUnarchive ==
    /\ config \in UnarchiveConfigs
    /\ archive \in UnarchiveArchives
    /\ disk \in UnarchiveDisks
    /\ cd_pc \in {"entry", "config"} /\ steps = <<>> /\ step_i = 1 /\ trace = <<>>
    /\ db = "none" /\ assets = <<>> /\ asset_list = <<>> /\ futures = <<>>
    /\ handled = {} /\ err_report = <<>> /\ cd_error = NoError /\ fs = {}
    /\ ParkedRD /\ ParkedDL /\ ParkedDT /\ ParkedRT /\ ParkedGS /\ ParkedWK

NextUnarchive ==
    \/ DatasetDownload \/ Construct \/ Call \/ FetchCatalogStep
    \/ UnarchiveCatalogStep \/ Finish

SpecUnarchive == InitUnarchive /\ [][NextUnarchive]_vars

\* ---- get_session (session.py) over every combination of argument,
\* environment and profiles file
ANONYMOUS_PROFILE == "__anonymous__"

\* bool(x) of an Optional[str]: neither None nor the empty string
Truthy(x) == x \notin {Null, ""}

SessionOf(key, source) == [kind |-> "session", key |-> key, source |-> source]

APIKeyNotFound(msg) == [kind |-> "APIKeyNotFound", key |-> Null, source |-> msg]

\* Session.from_env, session.py lines 124-140
from_env(env) ==
    IF ~Truthy(env) THEN APIKeyNotFound("No MLHUB_API_KEY variable found in environment.")
    ELSE SessionOf(env, "env")

\* Session.from_config, session.py lines 143-180
from_config(profile, file) ==
    IF ~file.exists THEN APIKeyNotFound("No file found")
    ELSE LET p == IF Truthy(profile) THEN profile ELSE "default"
         IN  IF p \notin DOMAIN file.keys THEN APIKeyNotFound("Could not find section")
             ELSE IF ~Truthy(file.keys[p]) THEN APIKeyNotFound("Could not find api_key value")
             ELSE SessionOf(file.keys[p], p)

\* get_session, session.py lines 250-264
get_session(api_key, env, profile, env_profile, file) ==
    IF Truthy(api_key) THEN SessionOf(api_key, "argument")
    ELSE IF env # Null THEN from_env(env)
    ELSE LET p == IF Truthy(profile) THEN profile ELSE env_profile
         IN  IF p = ANONYMOUS_PROFILE THEN SessionOf(Null, ANONYMOUS_PROFILE)
             ELSE LET r == from_config(p, file)
                  IN  IF r.kind = "APIKeyNotFound"
                      THEN APIKeyNotFound("Could not resolve an API key from arguments, the environment, or a config file.")
                      ELSE r

GsApply ==
    /\ gs_pc = "called"
    /\ gs_out' = get_session(gs_api_key, gs_env_key, gs_profile, gs_env_profile, gs_file)
    /\ gs_pc' = IF gs_out'.kind = "session" THEN "returned" ELSE "raised"
    /\ UNCHANGED <<gs_api_key, gs_env_key, gs_profile, gs_env_profile, gs_file,
                   rdVars, cdVars, dlVars, dtVars, rtVars, wkVars>>

ProfileNames == {"default", "p1", "p2"}

\* a profiles file: missing, or sections whose api_key is missing ("None"),
\* empty or a key
ProfileFiles ==
    {[exists |-> FALSE, keys |-> <<>>]} \cup
    {[exists |-> TRUE, keys |-> f] :
        f \in UNION {[S -> {Null, "", "filekey"}] : S \in SUBSET ProfileNames}}

InitGS ==
    /\ gs_api_key \in {Null, "", "argkey"}
    /\ gs_env_key \in {Null, "", "envkey"}
    /\ gs_profile \in {Null, "", "p1", ANONYMOUS_PROFILE}
    /\ gs_env_profile \in {Null, "", "p2", ANONYMOUS_PROFILE}
    /\ gs_file \in ProfileFiles
    /\ gs_pc = "called"
    /\ gs_out = NoSession
    /\ ParkedRD /\ ParkedCD /\ ParkedDL /\ ParkedDT /\ ParkedRT /\ ParkedWK

NextGS == GsApply

SpecGS == InitGS /\ [][NextGS]_vars

\* ---- _download_asset_worker called for one asset record
\* A url is its text cut into pieces: the scheme with its '://', the host or
\* bucket name, then pieces of path and query. No piece holds part of a scheme
\* and no name is the beginning of another, so a search for 's3://' or for
\* 's3://{name}' in the text finds what a search for the pieces finds.
S3Host == ".s3.amazonaws.com"

\* line 616: 's3://' in asset_url
HasS3(url) == \E i \in DOMAIN url : url[i] = "s3://"

\* line 620-621: urlparse(asset_url).netloc
netloc(url) == url[2]

RECURSIVE str_replace(_, _, _)
\* str.replace(old, new): every occurrence, from left to right
str_replace(url, old, new) ==
    IF Len(url) < Len(old) THEN url
    ELSE IF SubSeq(url, 1, Len(old)) = old
    THEN new \o str_replace(SubSeq(url, Len(old) + 1, Len(url)), old, new)
    ELSE <<Head(url)>> \o str_replace(Tail(url), old, new)

\* lines 616-627: the url the worker hands to ResumableDownloader
cleaned_url(asset_url) ==
    IF HasS3(asset_url)
    THEN LET bucket_name == netloc(asset_url)
         IN  str_replace(asset_url, <<"s3://", bucket_name>>,
                         <<"https://", bucket_name, S3Host>>)
    ELSE asset_url

\* lines 596-636: the worker builds the url and runs the downloader on it
WkCall ==
    /\ wk_pc = "queued"
    /\ wk_url' = cleaned_url(wk_rec.asset_url)
    /\ wk_pc' = "running"
    /\ UNCHANGED <<wk_rec, wk_report, rdVars, cdVars, dlVars, dtVars, rtVars, gsVars>>

\* dl.run() returns or raises
WkEnd ==
    /\ wk_pc = "running"
    /\ \E outcome \in {"ok", "raised"} : wk_pc' = outcome
    /\ UNCHANGED <<wk_rec, wk_url, wk_report, rdVars, cdVars, dlVars, dtVars, rtVars, gsVars>>

\* lines 688-710: future.result() in the as_completed loop
WkCollect ==
    /\ wk_pc \in {"ok", "raised"}
    /\ wk_pc' = IF wk_pc = "raised" THEN "reported" ELSE "handled"
    /\ wk_report' = IF wk_pc = "raised"
                    THEN Append(wk_report, ErrRow(config, wk_rec))
                    ELSE wk_report
    /\ UNCHANGED <<wk_rec, wk_url, rdVars, cdVars, dlVars, dtVars, rtVars, gsVars>>

\* asset urls of a catalog: object store and web urls, some with the text of
\* another url in their query
WorkerUrls ==
    {<<scheme, name>> \o rest :
        scheme \in {"s3://", "https://", "http://"},
        name \in {"bucket", "host"},
        rest \in {<<"/k.tif">>, <<"/d", "/k.tif">>,
                  <<"/get?src=", "s3://", "bucket", "/k.tif">>,
                  <<"/get?src=", "s3://", "host", "/k.tif">>}}

InitWK ==
    /\ wk_rec \in {[collection_id |-> "colA", item_id |-> "i1", asset_key |-> "B02",
                    asset_url |-> u] : u \in WorkerUrls}
    /\ wk_pc = "queued"
    /\ wk_url = <<>>
    /\ wk_report = <<>>
    /\ ParkedRD /\ ParkedCD /\ ParkedDL /\ ParkedDT /\ ParkedRT /\ ParkedGS

NextWK == WkCall \/ WkEnd \/ WkCollect

SpecWK == InitWK /\ [][NextWK]_vars

\* ---- a second run into the output directory of a run that downloaded
\* assets. asset_output_dir is not given, so asset_dir is work_dir (lines
\* 104-108) and the assets lie beside the documents of the catalog.
\* The file a worker wrote for an asset record, as iglob('**/*.json') and
\* json.load find it: a GeoJSON document with a type, without 'id' or 'assets'
AssetFile(rec) ==
    [file |-> rec.asset_save_path.key \o rec.asset_save_path.ext,
     dir |-> rec.asset_save_path.dir,
     type |-> "FeatureCollection", id |-> Null,
     collection |-> rec.asset_save_path.collection, has_assets |-> FALSE,
     assets |-> <<>>, bbox |-> NoBox, geometry |-> FALSE, datetime |-> NoText,
     start_datetime |-> NoText, end_datetime |-> NoText]

\* the index the first run built from the catalog D (no filter configured)
FirstRunIndex(D) ==
    create_asset_list(CHOOSE order \in Perms(D) : TRUE, 1, NoFilter, <<>>)

\* the downloaded files that the pattern '**/*.json' matches
JsonFiles(rows) ==
    {AssetFile(rows[i]) : i \in {j \in DOMAIN rows : rows[j].asset_save_path.ext = ".json"}}

\* what the first run can have left in work_dir: the catalog, and the assets
\* whose transfers succeeded (none if the run ended before the download)
RerunDisks(D) ==
    LET first == FirstRunIndex(D)
    IN  {[catalog_json |-> TRUE, docs |-> D \cup F] :
            F \in IF first.err = "" THEN SUBSET JsonFiles(first.rows) ELSE {{}}}

RerunConfigs ==
    {[Config(FALSE, FALSE, NoFilter, NoQuery, [bbox |-> NoBox, intersects |-> NoIntersects])
         EXCEPT !.if_exists = p] : p \in {"resume", "skip"}}

InitRerun ==
    /\ config \in RerunConfigs
    /\ archive \in IndexArchives
    /\ disk \in RerunDisks(archive.docs)
    /\ cd_pc \in {"entry", "config"} /\ steps = <<>> /\ step_i = 1 /\ trace = <<>>
    /\ db = "none" /\ assets = <<>> /\ asset_list = <<>> /\ futures = <<>>
    /\ handled = {} /\ err_report = <<>> /\ cd_error = NoError
    /\ fs = {"output_dir", "work_dir", "catalog.tar.gz", "err_report.csv",
             "mlhub_stac_assets.db"}
    /\ ParkedRD /\ ParkedDL /\ ParkedDT /\ ParkedRT /\ ParkedGS /\ ParkedWK

NextRerun ==
    \/ DatasetDownload \/ Construct \/ Call \/ FetchCatalogStep
    \/ UnarchiveCatalogStep \/ CreateAssetListStep \/ AssetDownloadBegin
    \/ WorkerStart \/ WorkerDone \/ Collect \/ AssetDownloadEnd \/ Finish

SpecRerun == InitRerun /\ [][NextRerun]_vars

\* ---- datetime_utils.py called on every instant and every pair of instants
DatetimeFns == {"one_to_one_check", "one_to_range_check", "range_to_range_check"}

\* Tuple[datetime, datetime]: any two instants, in either order
TimePairs == Times \X Times

Instants == {<<t>> : t \in Times}

\* the call returns what the function computes
DtApply ==
    /\ dt_pc = "called"
    /\ dt_pc' = "returned"
    /\ dt_out' = CASE dt_fn = "one_to_one_check" -> one_to_one_check(dt_d1[1], dt_d2[1])
                   [] dt_fn = "one_to_range_check" -> one_to_range_check(dt_d1[1], dt_d2)
                   [] dt_fn = "range_to_range_check" -> range_to_range_check(dt_d1, dt_d2)
    /\ UNCHANGED <<dt_fn, dt_d1, dt_d2, rdVars, cdVars, dlVars, rtVars, gsVars, wkVars>>

InitDT ==
    /\ dt_fn \in DatetimeFns
    /\ dt_d1 \in IF dt_fn = "range_to_range_check" THEN TimePairs ELSE Instants
    /\ dt_d2 \in IF dt_fn = "one_to_one_check" THEN Instants ELSE TimePairs
    /\ dt_pc = "called"
    /\ dt_out = FALSE
    /\ ParkedRD /\ ParkedCD /\ ParkedDL /\ ParkedRT /\ ParkedGS /\ ParkedWK

NextDT == DtApply

SpecDT == InitDT /\ [][NextDT]_vars

\* ------------------------------------------------------------------ claims

\* C1: from an absent destination (no file, no .md5 beside it) and an
\* unchanged remote, under policy resume, whatever runs were cut short
\* before, a run that returns without error leaves out_file byte-identical
\* to the remote resource.
C1_ResumeYieldsCopy ==
    (rd_fresh /\ if_exists = "resume" /\ rd_pc = "idle" /\ rd_result = "ok")
        => (out_file.exists /\ out_file.data = remote)

\* a run resumed behind a partial file (0 < pos < size) has returned normally
C1_Witness ==
    /\ rd_fresh /\ if_exists = "resume" /\ rd_pc = "idle" /\ rd_result = "ok"
    /\ 0 < pos /\ pos < Len(remote)
    /\ out_file.data = remote

\* ---- helpers of the claims about the pipeline
FilterSteps == {"filter_collections", "filter_temporal", "filter_bbox", "filter_intersects"}

InTrace(s) == \E i \in 1..Len(trace) : trace[i] = s

LastStep == IF trace = <<>> THEN "" ELSE trace[Len(trace)]

\* the option of a filter step was supplied (with a non-empty value)
OptionGiven(s) ==
    CASE s = "filter_collections" -> config.collection_filter.given
                                     /\ DOMAIN config.collection_filter.map # {}
      [] s = "filter_temporal"    -> config.temporal_query.kind # "none"
      [] s = "filter_bbox"        -> config.bbox # NoBox
      [] s = "filter_intersects"  -> config.intersects.kind \in {"nogeom", "geom"}

PosInOrder(s) == CHOOSE i \in 1..Len(StepOrder) : StepOrder[i] = s

\* the step s was called and has returned
Returned(s) ==
    \E i \in 1..Len(trace) :
        /\ trace[i] = s
        /\ (i < Len(trace) \/ cd_pc \in {"steps", "done"}
            \/ (cd_pc = "failed" /\ cd_error.step = "__call__"))

TransferStarted == \E k \in DOMAIN futures : futures[k] # "queued"

\* C2 (as amended): the steps called are a subsequence of FetchCatalog,
\* Unarchive, BuildIndex, FilterByIdentifier, FilterByTemporal,
\* FilterByBoundingBox, FilterByIntersection, DownloadAssets, in that order;
\* a filter step is called only if its option was supplied and the run is
\* not catalog-only; every supplied filter step has been called and has
\* returned before DownloadAssets is called, before any asset transfer
\* starts, and in every run that is not catalog-only and ends in success.
C2_StepsInOrder ==
    /\ \A i, j \in 1..Len(trace) : i < j => PosInOrder(trace[i]) < PosInOrder(trace[j])
    /\ \A s \in FilterSteps : InTrace(s) => (OptionGiven(s) /\ ~config.catalog_only)
    /\ (InTrace("asset_download") \/ TransferStarted
        \/ (cd_pc = "done" /\ ~config.catalog_only))
         => \A s \in FilterSteps : OptionGiven(s) => (Returned(s) /\ s # LastStep)

\* a successful run that called three filter steps and then transferred an asset
C2_Witness ==
    /\ cd_pc = "done"
    /\ trace = <<"fetch_catalog", "unarchive_catalog", "create_asset_list",
                 "filter_collections", "filter_temporal", "filter_bbox",
                 "asset_download">>
    /\ \E k \in DOMAIN futures : futures[k] = "ok"

\* C2 as first stated: in a run that ends in success, a filter step was called
\* iff its option was supplied.
C2_FilterStepIffOption ==
    cd_pc = "done" => \A s \in FilterSteps : InTrace(s) <=> OptionGiven(s)

\* C3: in the download step a failed transfer never ends the step in an
\* error and never stops another transfer: while the step runs something can
\* always go on, and when it has returned every scheduled transfer has run to
\* its end, whichever of them raised.
C3_FailuresStayApart ==
    /\ cd_error.step # "asset_download"
    /\ cd_pc = "download"
         => ENABLED (WorkerStart \/ WorkerDone \/ Collect \/ AssetDownloadEnd)
    /\ Returned("asset_download")
         => \A k \in DOMAIN futures : futures[k] \in {"ok", "raised"}

\* the download step has returned with exactly one of three transfers failed
C3_Witness ==
    /\ Returned("asset_download")
    /\ Len(futures) = 3
    /\ Cardinality({k \in DOMAIN futures : futures[k] = "raised"}) = 1
    /\ Cardinality({k \in DOMAIN futures : futures[k] = "ok"}) = 2

RowsOf(k) == {i \in 1..Len(err_report) : err_report[i] = ErrRow(config, asset_list[k])}

\* C4: whatever the order in which the transfers end, the error report holds
\* exactly one row for each failed transfer the coordinating thread has gone
\* through, no row for any other, and no other rows.
C4_OneRowPerFailure ==
    cd_pc \in {"download", "steps", "done", "failed"} =>
        /\ \A k \in DOMAIN futures :
              Cardinality(RowsOf(k)) = IF k \in handled /\ futures[k] = "raised" THEN 1 ELSE 0
        /\ Len(err_report) = Cardinality({k \in handled : futures[k] = "raised"})

\* the step has returned after two transfers failed and one succeeded
C4_Witness ==
    /\ Returned("asset_download")
    /\ Cardinality({k \in DOMAIN futures : futures[k] = "raised"}) = 2
    /\ Cardinality({k \in DOMAIN futures : futures[k] = "ok"}) = 1
    /\ Len(err_report) = 2

AllStepsReturned ==
    cd_pc \in {"steps", "done", "failed"} /\ steps # <<>> /\ step_i > Len(steps)

\* C5: a run whose steps all returned ends in failure iff the error report is
\* not empty, with an IOError that names the report, and in success iff it is
\* empty; the failure comes only when every scheduled transfer has finished.
C5_FailureIffReport ==
    /\ cd_pc = "done" => (AllStepsReturned /\ err_report = <<>>)
    /\ (cd_pc = "failed" /\ cd_error.step = "__call__") =>
          /\ AllStepsReturned
          /\ err_report # <<>>
          /\ cd_error.msg = "IOError: asset download error(s) were logged to err_report.csv"
          /\ \A k \in DOMAIN futures : futures[k] \in {"ok", "raised"} /\ k \in handled
    /\ (cd_pc = "failed" /\ AllStepsReturned) => err_report # <<>>
    /\ (AllStepsReturned /\ cd_pc = "steps") => ENABLED Finish

\* a run ended in the IOError although one of its transfers succeeded
C5_Witness ==
    /\ cd_pc = "failed" /\ cd_error.step = "__call__"
    /\ \E k \in DOMAIN futures : futures[k] = "ok"
    /\ \E k \in DOMAIN futures : futures[k] = "raised"

EarlySteps == {"fetch_catalog", "unarchive_catalog", "create_asset_list"} \cup FilterSteps

\* C6: when FetchCatalog, Unarchive, BuildIndex or a filter step raises, the
\* run ends there: the raising step is the last step called, nothing happens
\* afterwards and no asset transfer was ever scheduled.
C6_RaiseAborts ==
    cd_error.step \in EarlySteps =>
        /\ cd_pc = "failed"
        /\ LastStep = cd_error.step
        /\ futures = <<>> /\ asset_list = <<>>
        /\ ~ENABLED Next

\* BuildIndex raised on an item with geometry and no bbox, filters configured
C6_Witness ==
    /\ cd_error = [step |-> "create_asset_list",
                   msg |-> "RuntimeError: item has no bbox, but has geometry"]
    /\ OptionGiven("filter_collections")
    /\ assets # <<>>

IndexBuilt == Returned("create_asset_list")

\* C7: BuildIndex leaves every record with filtered = false, and from then
\* on a step changes the index only by turning filtered flags from false to
\* true: no record is added or deleted and no other field changes.
C7_FlagsOnlyRise ==
    [][/\ (CurrentStep = "create_asset_list")
            => \A i \in DOMAIN assets' : ~assets'[i].filtered
       /\ IndexBuilt
            => /\ DOMAIN assets' = DOMAIN assets
               /\ \A i \in DOMAIN assets :
                     \/ assets'[i] = assets[i]
                     \/ (~assets[i].filtered
                         /\ assets'[i] = [assets[i] EXCEPT !.filtered = TRUE])]_vars

\* two filter steps have each marked a record, and a record is left
C7_Witness ==
    /\ Returned("filter_collections") /\ Returned("filter_temporal")
    /\ \E i \in DOMAIN assets : assets[i].filtered /\ ~collection_keeps(config.collection_filter.map, assets[i])
    /\ \E i \in DOMAIN assets : assets[i].filtered /\ collection_keeps(config.collection_filter.map, assets[i])
    /\ \E i \in DOMAIN assets : ~assets[i].filtered

\* the assets of the unpacked catalog, each named by collection, item and key
CatalogAssets ==
    UNION {{[collection_id |-> IF IsCollection(d) THEN d.id ELSE d.collection,
             item_id |-> IF IsCollection(d) THEN Null ELSE d.id,
             asset_key |-> d.assets[i].key] : i \in 1..Len(d.assets)} :
           d \in {e \in disk.docs : e.has_assets}}

NameOf(row) ==
    [collection_id |-> row.collection_id, item_id |-> row.item_id,
     asset_key |-> row.asset_key]

Unfiltered(rows) == {NameOf(rows[i]) : i \in {j \in DOMAIN rows : ~rows[j].filtered}}

AfterIdentifierFilter == LastStep = "filter_collections" /\ cd_pc = "steps"

\* C8: when BuildIndex and then FilterByIdentifier with allow list f have
\* returned, an asset of the catalog, item-level or collection-level, is in
\* the index and unfiltered iff its collection is a key of f and f's key list
\* for it is empty or holds the asset's key.
C8_AllowListDecides ==
    AfterIdentifierFilter =>
        \A a \in CatalogAssets :
            a \in Unfiltered(assets)
                <=> /\ a.collection_id \in DOMAIN config.collection_filter.map
                    /\ \/ config.collection_filter.map[a.collection_id] = {}
                       \/ a.asset_key \in config.collection_filter.map[a.collection_id]

\* C9: FilterByIdentifier applied again to the index it has filtered changes
\* no record, and BuildIndex followed by FilterByIdentifier on the same
\* catalog with the same filter, in whatever order the documents are read,
\* leaves the same set and the same count of unfiltered assets.
C9_IdentifierFilterIdempotent ==
    AfterIdentifierFilter =>
        LET f == config.collection_filter.map
        IN  /\ mark_assets_filtered(assets, filter_collections(assets, f)) = assets
            /\ \A order \in Perms(disk.docs) :
                  LET r     == create_asset_list(order, 1, config.collection_filter, <<>>)
                      again == mark_assets_filtered(r.rows, filter_collections(r.rows, f))
                  IN  /\ r.err = ""
                      /\ Unfiltered(again) = Unfiltered(assets)
                      /\ fetch_unfiltered_count(again) = fetch_unfiltered_count(assets)

\* the filter has returned having marked one record and kept two of two documents
C9_Witness ==
    /\ AfterIdentifierFilter
    /\ Cardinality(disk.docs) = 2
    /\ \E i \in DOMAIN assets : assets[i].filtered
    /\ Cardinality(Unfiltered(assets)) >= 2

ZeroMsg(s) ==
    CASE s = "filter_collections" ->
             "after filtering collections_ids and asset keys, zero assets to download"
      [] s = "filter_temporal" ->
             "after filtering by temporal query, zero assets to download"
      [] s = "filter_bbox" ->
             "after filtering by bounding box, zero assets to download"
      [] s = "filter_intersects" ->
             "after filtering by intersects, zero assets to download"

\* C10: after a filter step was called, either an unfiltered asset is left
\* or the step has raised the error that names it; and when filter steps ran,
\* DownloadAssets starts with at least one unfiltered asset.
C10_FilterLeavesAssets ==
    /\ \A s \in FilterSteps :
          LastStep = s =>
             \/ Unfiltered(assets) # {}
                  /\ cd_error.msg # ZeroMsg(s)
             \/ cd_pc = "failed" /\ cd_error = [step |-> s, msg |-> ZeroMsg(s)]
    /\ (InTrace("asset_download") /\ \E s \in FilterSteps : InTrace(s))
          => (Unfiltered(assets) # {} /\ asset_list # <<>>)

\* the bounding box step left nothing of what the identifier filter had kept
C10_Witness ==
    /\ cd_pc = "failed"
    /\ cd_error = [step |-> "filter_bbox", msg |-> ZeroMsg("filter_bbox")]
    /\ Returned("filter_collections")
    /\ assets # <<>> /\ Unfiltered(assets) = {}

\* a configuration with both bbox and intersects, or with an intersects value
\* that has no geometry property ({} included)
BadConfig ==
    \/ (config.bbox # NoBox /\ config.intersects.kind # "none")
    \/ config.intersects.kind \in {"nogeom", "empty"}

\* C11: a configuration with both bbox and intersects, or with an intersects
\* value without a geometry property, is rejected by the constructor with a
\* ValueError, before any step runs and before any directory or file is made.
C11_BadConfigRejected ==
    (BadConfig /\ cd_pc \notin {"entry", "config"}) =>
        /\ cd_pc = "failed"
        /\ cd_error.step = "__init__"
        /\ trace = <<>>
        /\ fs = {}

\* C12: a catalog-only run calls FetchCatalog and Unarchive and nothing else,
\* whatever filter options it was given; when it has ended in success the
\* catalog archive and catalog.json are on disk; and it makes no asset index.
C12_CatalogOnlyRun ==
    config.catalog_only =>
        /\ \A i \in 1..Len(trace) : trace[i] \in {"fetch_catalog", "unarchive_catalog"}
        /\ db = "none" /\ "mlhub_stac_assets.db" \notin fs
        /\ assets = <<>> /\ asset_list = <<>> /\ futures = <<>>
        /\ cd_pc = "done" =>
              /\ trace = <<"fetch_catalog", "unarchive_catalog">>
              /\ "catalog.tar.gz" \in fs
              /\ disk.catalog_json

\* a catalog-only run given two filters has ended in success over a catalog
\* that holds documents
C12_Witness ==
    /\ config.catalog_only /\ cd_pc = "done"
    /\ OptionGiven("filter_collections") /\ OptionGiven("filter_temporal")
    /\ disk.docs # {}

\* ---- helpers of the claims about one run of the downloader
\* the current or last run has got past its request
RunEnded == rd_pc = "idle" /\ rd_result # "none"

IsPrefix(a, b) == Len(a) <= Len(b) /\ a = SubSeq(b, 1, Len(a))

IntegrityErrors ==
    {"IOError: Failed to validate md5 checksum",
     "IOError: failed validation after download"}

\* the connection failed or the server answered with an error of its own
TransportFailed == rd_error \in {"HTTPError", "interrupted"}

\* C13: a run under resume that found a local file as long as the remote has
\* ended without an error, has read nothing of a response body and has left
\* the file as it was (the connection holding and the headers well formed).
C13_CompleteFileIsKept ==
    (if_exists = "resume" /\ file0.exists /\ Len(file0.data) = Len(remote) /\ RunEnded
     /\ ~TransportFailed /\ srv_md5 # "notb64")
        => (rd_result = "ok" /\ out_file = file0)

C15_LongerFileIsFatal ==
    (if_exists = "resume" /\ file0.exists /\ Len(file0.data) > Len(remote) /\ RunEnded)
        => rd_result = "error"

\* C16: a run under skip that found the destination has returned without a
\* request, without an error and without touching the file, whatever is in
\* the file and whether or not a .md5 file is beside it.
C16_SkipReturnsAtOnce ==
    (if_exists = "skip" /\ file0.exists /\ RunEnded)
        => (rd_result = "ok" /\ requests = 0 /\ out_file = file0)

\* the current run has opened the file
RunOpened == rd_pc \in {"request", "stream"} \/ RunEnded

\* C18: a run under overwrite that found the destination goes on as one that
\* found nothing: the file is emptied, the request has no Range header, the
\* file only ever holds bytes of the new response, from byte 0 on, and a run
\* that returns normally leaves the whole resource.
C18_OverwriteStartsAfresh ==
    (if_exists = "overwrite" /\ file0.exists /\ RunOpened) =>
        /\ pos = 0
        /\ req_range = -1
        /\ rd_pc = "request" => out_file = [exists |-> TRUE, data |-> <<>>]
        /\ IsPrefix(out_file.data, remote)
        /\ (RunEnded /\ rd_result = "ok") => (requests = 1 /\ out_file.data = remote)

\* an old file that is no part of the resource was replaced by the resource
C18_Witness ==
    /\ if_exists = "overwrite" /\ file0.exists
    /\ file0.data # <<>> /\ ~IsPrefix(file0.data, remote)
    /\ RunEnded /\ rd_result = "ok"
    /\ remote # <<>> /\ out_file.data = remote

\* the run got a response whose content-md5 header is well-formed base64
ChecksumReceived ==
    /\ requests = 1 /\ srv_md5 = "valid"
    /\ rd_error \notin {"HTTPError", "HTTPError: 416 Range Not Satisfiable"}

\* C19 (as amended): when md5_check is on and the response carries a base64
\* content-md5 header, the checksum is written beside the destination and the
\* file is hashed against it before the run returns: a run never returns
\* normally with a file that does not match, and it raises an IOError of its
\* own, never a transport error's, exactly when the body was received and the
\* file does not match. With md5_check off the checksum is written all the
\* same and the file is not hashed; a header that is not base64 ends the run
\* in binascii.Error.
C19_ChecksumVerified ==
    /\ (ChecksumReceived /\ (rd_pc = "stream" \/ RunEnded))
          => checksum_file = [exists |-> TRUE, hex |-> Hex(Md5(remote))]
    /\ (ChecksumReceived /\ md5_check /\ RunEnded /\ rd_result = "ok")
          => Hex(Md5(out_file.data)) = checksum_file.hex
    /\ (ChecksumReceived /\ md5_check /\ RunEnded /\ rd_error # "interrupted"
        /\ Hex(Md5(out_file.data)) # checksum_file.hex)
          => rd_error \in IntegrityErrors
    /\ rd_error \in IntegrityErrors
          => (md5_check /\ ~validate(out_file, checksum_file, TRUE))
    /\ (requests = 1 /\ srv_md5 = "notb64" /\ RunEnded)
          => rd_error \in {"HTTPError", "HTTPError: 416 Range Not Satisfiable", "binascii.Error"}

\* a run resumed behind a byte that is not the resource's ended in the
\* IOError of the final validation
C19_Witness ==
    /\ ChecksumReceived /\ md5_check /\ RunEnded
    /\ if_exists = "resume" /\ file0.exists /\ ~IsPrefix(file0.data, remote)
    /\ Len(out_file.data) = Len(remote) /\ out_file.data # remote
    /\ rd_error = "IOError: failed validation after download"

\* C19 as first stated: whenever the response carries a checksum header the
\* run does not return normally with a file that does not match it.
C19_HeaderAlwaysVerified ==
    (requests = 1 /\ srv_md5 # "none" /\ RunEnded /\ rd_result = "ok")
        => /\ checksum_file.exists
           /\ Hex(Md5(out_file.data)) = checksum_file.hex

\* C17: a call of _download with if_exists = 'skip' that found the output
\* file sends no request to the server and returns the file as it was.
C17_SkipSendsNothing ==
    (dl_if_exists = "skip" /\ dl_out0.exists /\ dl_pc # "idle")
        => (dl_pc = "done" /\ dl_reqs = <<>> /\ dl_out = dl_out0)

\* the comparison of a row's case, closed at both ends: equal instants, an
\* instant inside an interval, or two intervals with an instant in common
InTime(q, row) ==
    IF row.single_datetime # NoText
    THEN IF q.kind = "instant" THEN row.single_datetime[1] = q.v[1]
         ELSE q.v[1] <= row.single_datetime[1] /\ row.single_datetime[1] <= q.v[2]
    ELSE IF q.kind = "instant"
         THEN row.start_datetime[1] <= q.v[1] /\ q.v[1] <= row.end_datetime[1]
         ELSE \E x \in Times :
                /\ row.start_datetime[1] <= x /\ x <= row.end_datetime[1]
                /\ q.v[1] <= x /\ x <= q.v[2]

\* the temporal step has gone through the rows and marked what it marks
TemporalStepMarked ==
    /\ LastStep = "filter_temporal"
    /\ \/ cd_pc \in {"steps", "done"}
       \/ cd_error = [step |-> "filter_temporal", msg |-> ZeroMsg("filter_temporal")]

\* C20: when the temporal step has gone through the index, an item's row is
\* unfiltered iff the comparison of its case holds, both ends of every
\* interval included; every row whose comparison fails is marked.
C20_TemporalComparison ==
    TemporalStepMarked =>
        \A i \in DOMAIN assets :
            assets[i].filtered <=> ~InTime(config.temporal_query, assets[i])

\* the query interval 1..2 kept an item interval 0..1, which only touches it,
\* and marked an item of instant 0
C20_Witness ==
    /\ TemporalStepMarked
    /\ config.temporal_query = [kind |-> "range", v |-> <<1, 2>>]
    /\ \E i \in DOMAIN assets :
          /\ assets[i].start_datetime = DateText(0) /\ assets[i].end_datetime = DateText(1)
          /\ ~assets[i].filtered
    /\ \E i \in DOMAIN assets :
          assets[i].single_datetime = DateText(0) /\ assets[i].filtered

\* ---- C21..C30
WellFormed(d) == d[1] <= d[2]

DtReturned(fn) == dt_pc = "returned" /\ dt_fn = fn

Overlap(d1, d2) == d1[1] <= d2[2] /\ d2[1] <= d1[2]

\* C22: for every pair of intervals d1 and d2 with start <= end,
\* range_to_range_check(d1, d2) is true iff d1_start <= d2_end and
\* d2_start <= d1_end; intervals that only touch at a boundary instant
\* overlap, disjoint intervals do not.
C22_TrueOverlap ==
    (DtReturned("range_to_range_check") /\ WellFormed(dt_d1) /\ WellFormed(dt_d2))
        => /\ dt_out = Overlap(dt_d1, dt_d2)
           /\ (dt_d1[2] = dt_d2[1] \/ dt_d2[2] = dt_d1[1]) => dt_out
           /\ (dt_d1[2] < dt_d2[1] \/ dt_d2[2] < dt_d1[1]) => ~dt_out

\* the check has returned true for two intervals of more than one instant
\* that share nothing but a boundary instant
C22_Witness ==
    /\ DtReturned("range_to_range_check")
    /\ dt_d1[1] < dt_d1[2] /\ dt_d2[1] < dt_d2[2]
    /\ dt_d1[2] = dt_d2[1]
    /\ dt_out

\* an item-level row with neither a datetime nor a complete start/end pair
Undated(row) ==
    /\ row.item_id # Null
    /\ row.single_datetime = NoText
    /\ (row.start_datetime = NoText \/ row.end_datetime = NoText)

\* C23: the temporal filter step skips an item-level asset that has neither a
\* single datetime nor a complete start/end interval: the step raises no
\* error for it and leaves its filtered flag false.
C23_UndatedSkipped ==
    (InTrace("filter_temporal")
     /\ \E i \in DOMAIN assets : Undated(assets[i]) /\ ~assets[i].filtered)
        => ~(cd_error.step = "filter_temporal" /\ cd_error.msg = "TypeError: Parser must be a string")

\* the rows of the index once _create_asset_list_step has returned
IndexRows == IF Returned("create_asset_list") THEN DOMAIN assets ELSE {}

\* C24: asset_save_path, relative to the asset root, is
\* {collection_id}/{asset_key}{ext} for a collection-level asset,
\* {collection_id}/_common/{asset_key}{ext} for an item asset whose key is in
\* the common set, {collection_id}/{item_id}/{asset_key}{ext} for every other
\* item asset.
C24_SavePathLayout ==
    \A i \in IndexRows :
        LET row == assets[i]
            p   == row.asset_save_path
        IN  /\ p.collection = row.collection_id
            /\ p.key = row.asset_key
            /\ p.ext = Ext(row.asset_url)
            /\ p.dir = CASE row.item_id = Null -> ""
                         [] row.item_id # Null /\ row.asset_key \in COMMON_ASSET_NAMES -> "_common"
                         [] OTHER -> row.item_id

\* an index with a collection-level asset, a common item asset and another
\* item asset
C24_Witness ==
    /\ \E i \in IndexRows : assets[i].item_id = Null
    /\ \E i \in IndexRows : assets[i].item_id # Null /\ assets[i].asset_save_path.dir = "_common"
    /\ \E i \in IndexRows : assets[i].item_id # Null
                            /\ assets[i].asset_save_path.dir = assets[i].item_id
                            /\ assets[i].item_id # "_common"

Triple(row) == <<row.collection_id, row.item_id, row.asset_key>>

IsCommon(row) == row.item_id # Null /\ row.asset_key \in COMMON_ASSET_NAMES

\* C25: in every index, two records with different (collection_id, item_id,
\* asset_key) never have the same asset_save_path unless both are common
\* assets with the same key in the same collection; and all records of one
\* common asset key within a collection have one and the same asset_save_path.
C25_OnePathPerAsset ==
    \A i, j \in IndexRows :
        LET a == assets[i]
            b == assets[j]
            shared == /\ IsCommon(a) /\ IsCommon(b)
                      /\ a.asset_key = b.asset_key
                      /\ a.collection_id = b.collection_id
        IN  /\ (Triple(a) # Triple(b) /\ a.asset_save_path = b.asset_save_path) => shared
            /\ shared => a.asset_save_path = b.asset_save_path

\* the first half of C25 alone: different assets never meet in one path
\* unless they are the same common asset of one collection
C25_DifferentAssetsApart ==
    \A i, j \in IndexRows :
        LET a == assets[i]
            b == assets[j]
        IN  (Triple(a) # Triple(b) /\ a.asset_save_path = b.asset_save_path)
                => /\ IsCommon(a) /\ IsCommon(b)
                   /\ a.asset_key = b.asset_key
                   /\ a.collection_id = b.collection_id

\* the download step has submitted its transfers to the pool
Scheduled == ~config.dry_run /\ InTrace("asset_download")

UnfilteredRows == {i \in DOMAIN assets : ~assets[i].filtered}

\* the first unfiltered row, in scan order, that has the path p
FirstRow(p) ==
    CHOOSE i \in UnfilteredRows :
        /\ assets[i].asset_save_path = p
        /\ \A j \in UnfilteredRows : assets[j].asset_save_path = p => i <= j

\* C26: the download step schedules exactly one transfer for each distinct
\* asset_save_path among the unfiltered records, that of the first such
\* record in scan order, and none for a filtered record; no two workers
\* ever write the same destination file.
C26_OneTransferPerPath ==
    Scheduled =>
        /\ DOMAIN futures = DOMAIN asset_list
        /\ {asset_list[k].asset_save_path : k \in DOMAIN asset_list}
              = {assets[i].asset_save_path : i \in UnfilteredRows}
        /\ \A k, l \in DOMAIN asset_list :
              asset_list[k].asset_save_path = asset_list[l].asset_save_path => k = l
        /\ \A k \in DOMAIN asset_list :
              LET row == assets[FirstRow(asset_list[k].asset_save_path)]
              IN  /\ asset_list[k].asset_url = row.asset_url
                  /\ asset_list[k].item_id = row.item_id
                  /\ asset_list[k].asset_key = row.asset_key
        /\ \A k, l \in Running :
              k # l => asset_list[k].asset_save_path # asset_list[l].asset_save_path

\* two workers are running while two unfiltered records of different items
\* have one path
C26_Witness ==
    /\ Scheduled
    /\ Cardinality(Running) = 2
    /\ Len(asset_list) < Cardinality(UnfilteredRows)
    /\ \E i, j \in UnfilteredRows :
          /\ i # j /\ assets[i].item_id # assets[j].item_id
          /\ assets[i].asset_save_path = assets[j].asset_save_path

\* every scheduled transfer has ended and the step has gone through it
AllProcessed ==
    /\ cd_pc # "download"
    /\ \A k \in DOMAIN futures : futures[k] \in {"ok", "raised"}
    /\ handled = DOMAIN futures

IndexSteps == {"create_asset_list", "filter_collections", "filter_temporal",
               "filter_bbox", "filter_intersects", "asset_download"}

\* C28: the asset index is accessed by one step at a time and only by the
\* coordinating thread: it is committed and closed before the first download
\* worker starts, and no download worker ever reads or writes it.
C28_IndexSingleThreaded ==
    /\ []((cd_pc = "download" \/ TransferStarted) => db = "closed")
    /\ [][cd_pc = "download" => (assets' = assets /\ db' = db)]_vars
    /\ [][(assets' # assets \/ (db = "open" /\ db' = "closed"))
            => (db = "open" /\ cd_pc = "steps" /\ CurrentStep \in IndexSteps
                /\ Running = {})]_vars

\* a worker is running on an index that was built and closed
C28_Witness ==
    /\ Running # {}
    /\ db = "closed"
    /\ assets # <<>>

LastStatus == rt_history[Len(rt_history)]

\* C29: for the catalog archive transfer as well as for an asset transfer, a
\* request answered with 429, 500, 502, 503 or 504 is retried, up to 5
\* attempts; when the attempts are exhausted the failure is raised to the
\* caller, and the transfer never returns normally on such an answer.
C29_RetriedThenRaised ==
    /\ (rt_pc = "raised" /\ LastStatus \in StatusForcelist) => Len(rt_history) >= 5
    /\ rt_pc = "returned" => LastStatus = 200

\* the asset transfers alone: the downloader's own session sends the request
\* again after each of the listed statuses, RetryTotal times at most, and no
\* failure is returned as a success by either session
C29_OwnSessionRetries ==
    /\ (rt_session = "own" /\ rt_pc = "raised" /\ LastStatus \in StatusForcelist)
          => Len(rt_history) = RetryTotal + 1
    /\ Len(rt_history) <= RetryTotal + 1
    /\ rt_pc = "returned" => LastStatus = 200

Paths(D) == {DocPath(d) : d \in D}

\* the step taken is the call of _unarchive_catalog_step
UnarchiveTaken ==
    CurrentStep = "unarchive_catalog" /\ trace' = Append(trace, "unarchive_catalog")

\* C30: the unarchive step under policy resume or skip leaves every file
\* untouched whose path a member of the archive has, and extracts the missing
\* members only; under policy overwrite it extracts every member of the
\* archive again. In both cases the step succeeds only if catalog.json
\* exists afterwards.
C30_UnarchiveByPolicy ==
    [][UnarchiveTaken =>
        /\ IF config.if_exists \in {"resume", "skip"}
           THEN /\ disk.docs \subseteq disk'.docs
                /\ \A a \in archive.docs :
                      a \in disk'.docs
                          <=> (a \in disk.docs \/ DocPath(a) \notin Paths(disk.docs))
                /\ disk'.docs \subseteq disk.docs \cup archive.docs
           ELSE /\ archive.docs \subseteq disk'.docs
                /\ \A d \in disk.docs :
                      d \in disk'.docs
                          <=> (d \in archive.docs \/ DocPath(d) \notin Paths(archive.docs))
                /\ disk'.docs \subseteq disk.docs \cup archive.docs
        /\ (disk.catalog_json \/ archive.catalog_json) <=> disk'.catalog_json
        /\ cd_pc' # "failed" => disk'.catalog_json
        /\ disk'.catalog_json => cd_pc' # "failed"
      ]_vars

\* the step has returned under resume or skip, with a file on disk that an
\* archive member of the same path differs from, and with a member extracted
C30_Witness ==
    /\ Returned("unarchive_catalog")
    /\ config.if_exists \in {"resume", "skip"}
    /\ \E d \in disk.docs : \E a \in archive.docs :
          DocPath(a) = DocPath(d) /\ a # d /\ a \notin disk.docs
    /\ \E a \in archive.docs : a \in disk.docs /\ a \notin OldDocs

\* ---- C31..C39
\* the run has ended, in success or with an exception
PipelineEnded == cd_pc \in {"done", "failed"}

\* C31: after every run that is not catalog-only and in which
\* _create_asset_list_step completed, whether it ends in success or in an
\* error, the index file on disk records every candidate asset with its
\* current filtered status.
C31_IndexPersisted ==
    (PipelineEnded /\ ~config.catalog_only /\ Returned("create_asset_list")
     /\ cd_error.msg # "TypeError: Parser must be a string")
        => committed_rows(db, assets) = assets

\* the name of the profile looked up: the argument, else MLHUB_PROFILE, else
\* 'default'
ProfileLookedUp ==
    IF Truthy(gs_profile) THEN gs_profile
    ELSE IF Truthy(gs_env_profile) THEN gs_env_profile
    ELSE "default"

ProfileHasKey(p) ==
    gs_file.exists /\ p \in DOMAIN gs_file.keys /\ Truthy(gs_file.keys[p])

GsEnded == gs_pc \in {"returned", "raised"}

\* C32: get_session takes the key of the api_key argument; else of
\* MLHUB_API_KEY; else of the profile named by the profile argument, else by
\* MLHUB_PROFILE, else 'default'. The anonymous profile yields a session
\* without a key only when neither an api_key argument nor MLHUB_API_KEY is
\* set, and APIKeyNotFound is raised when nothing resolves.
C32_KeyPrecedence ==
    GsEnded =>
        IF Truthy(gs_api_key) THEN gs_out = SessionOf(gs_api_key, "argument")
        ELSE IF Truthy(gs_env_key) THEN gs_out = SessionOf(gs_env_key, "env")
        ELSE IF ProfileLookedUp = ANONYMOUS_PROFILE
        THEN gs_out = SessionOf(Null, ANONYMOUS_PROFILE)
        ELSE IF ProfileHasKey(ProfileLookedUp)
        THEN gs_out = SessionOf(gs_file.keys[ProfileLookedUp], ProfileLookedUp)
        ELSE gs_out.kind = "APIKeyNotFound"

\* the same precedence when MLHUB_API_KEY, if it is in the environment, is
\* not empty
C32_PrecedenceNonEmptyEnv ==
    (GsEnded /\ gs_env_key # "") => C32_KeyPrecedence

\* the step taken is the call of a spatial filter step, and the geometry of
\* its query
SpatialTaken ==
    /\ CurrentStep \in {"filter_bbox", "filter_intersects"}
    /\ trace' = Append(trace, CurrentStep)

QueryGeometry ==
    IF CurrentStep = "filter_bbox" THEN {config.bbox} ELSE config.intersects.geometry

\* C33: in the bounding-box and intersects filter steps every item-level row
\* that has a bbox is marked filtered iff its own bbox does not intersect the
\* query geometry, whatever other rows share its item_id; rows without a bbox
\* stay unfiltered.
C33_OwnBboxDecides ==
    [][SpatialTaken =>
        \A i \in Selected(assets) :
            IF assets[i].bbox_json.null
            THEN ~assets'[i].filtered
            ELSE assets'[i].filtered
                   <=> ~GeomIntersects(QueryGeometry, JsonLoads(assets[i].bbox_json))
      ]_vars

\* ---- helpers of the claim about the composition of the filter steps
\* the filter steps the run was configured with
ConfiguredFilters == {s \in FilterSteps : \E i \in DOMAIN steps : steps[i] = s}

\* what one filter step does to an index: the rows after its update, and
\* whether it raises (the temporal parse error, or zero assets left)
ApplyFilter(s, rows) ==
    LET t   == filter_temporal(rows, config.temporal_query)
        ids == CASE s = "filter_collections" ->
                        filter_collections(rows, config.collection_filter.map)
                 [] s = "filter_temporal"    -> t.ids
                 [] s = "filter_bbox"        -> filter_spatial(rows, {config.bbox})
                 [] s = "filter_intersects"  ->
                        filter_spatial(rows, config.intersects.geometry)
        out == mark_assets_filtered(rows, ids)
    IN  [rows   |-> out,
         raised |-> (s = "filter_temporal" /\ t.err # "")
                    \/ fetch_unfiltered_count(out) = 0]

RECURSIVE ApplyInOrder(_, _, _)
\* the filter steps applied one after the other in a given order
ApplyInOrder(order, i, acc) ==
    IF i > Len(order) \/ acc.raised THEN acc
    ELSE ApplyInOrder(order, i + 1, ApplyFilter(order[i], acc.rows))

\* the index as BuildIndex left it: every row unfiltered
FreshIndex == [rows |-> mark_assets_exactly(assets, {}), raised |-> FALSE]

UnfilteredIds(rows) == {i \in DOMAIN rows : ~rows[i].filtered}

FiltersReturned ==
    /\ Cardinality(ConfiguredFilters) >= 2
    /\ \A s \in ConfiguredFilters : Returned(s)

BodyReceived ==
    /\ RunEnded /\ requests = 1
    /\ rd_error \notin {"HTTPError", "HTTPError: 416 Range Not Satisfiable",
                        "interrupted", "binascii.Error"}

\* C35: a run whose response carries no content-md5 header, with no .md5 file
\* beside the destination, and whose body was received completely, returns
\* without error.
C35_NoChecksumNoError ==
    (srv_md5 = "none" /\ ~checksum_file.exists /\ BodyReceived) => rd_result = "ok"

\* ---- helpers of the claim about the url of an asset's request
WkCalled == wk_pc \in {"running", "ok", "raised", "handled", "reported"}

\* the https form of an s3 url: the bucket's host, then the same path
S3AsHttps(url) == <<"https://", url[2], S3Host>> \o SubSeq(url, 3, Len(url))

\* C36: once the worker has called the downloader, the url requested is the
\* https form (bucket host, same path) of an asset url with scheme s3 and
\* never an s3 url, and it is the asset url itself for every other scheme; the
\* row written for a failed asset holds the asset url of the record.
C36_S3Rewritten ==
    /\ WkCalled =>
          /\ wk_url[1] # "s3://"
          /\ wk_url = IF wk_rec.asset_url[1] = "s3://"
                      THEN S3AsHttps(wk_rec.asset_url)
                      ELSE wk_rec.asset_url
    /\ wk_pc = "reported" =>
          /\ Len(wk_report) = 1
          /\ wk_report[1].asset_url = wk_rec.asset_url

\* the text 's3://' is nowhere in the url but at its start
S3OnlyAsScheme(url) == \A i \in 2..Len(url) : url[i] # "s3://"

\* the same for asset urls that hold 's3://' as their scheme at most
C36_RewrittenWhenPlain ==
    S3OnlyAsScheme(wk_rec.asset_url) => C36_S3Rewritten

\* ---- helpers of the claim about the byte ranges of _download
\* the offset the call started from: the length of the file it resumes
DlStart == IF dl_out0.exists /\ dl_if_exists = "resume" THEN Len(dl_out0.data) ELSE 0

\* the bytes the call has written behind what it kept
DlWritten == SubSeq(dl_out.data, Min(DlStart, Len(dl_out.data)) + 1, Len(dl_out.data))

\* the resource's bytes from the offset to its end
DlRest == SubSeq(dl_remote, DlStart + 1, Len(dl_remote))

RECURSIVE Concat(_, _, _)
\* the contents of the first n fetches, in the order of their ranges
Concat(got, i, n) == IF i > n THEN <<>> ELSE got[i].content \o Concat(got, i + 1, n)

\* C37: while _download fetches and after it returned, whatever the order in
\* which the fetches end, the file holds behind the resume offset the contents
\* of the ranges in ascending order, which are the resource's bytes from the
\* offset on, and all of them to the last when the call returns.
C37_RangesInOrder ==
    (dl_pc \in {"fetch", "done", "failed"} /\ dl_ranges # <<>>) =>
        /\ DlWritten = Concat(dl_got, 1, dl_next - 1)
        /\ IsPrefix(DlWritten, DlRest)
        /\ dl_pc = "done" => DlWritten = DlRest

\* the same for a call whose offset lies inside the resource
C37_InOrderFromInside ==
    DlStart <= Len(dl_remote) => C37_RangesInOrder

\* a later range's fetch has ended before an earlier one's and waits for it
C37_OutOfOrderSeen ==
    /\ dl_pc = "fetch" /\ Len(dl_ranges) >= 2
    /\ dl_got[1].st = "running" /\ dl_got[2].st = "done" /\ dl_next = 1

\* ---- helpers of the claim about a second run
RowSet(rows) == {rows[i] : i \in DOMAIN rows}

\* an asset file of the first run lies in work_dir
AssetFilesLeft == \E d \in disk.docs : d.type = "FeatureCollection"

\* C38: in a second run under resume or skip into the directory of a run that
\* built its index and downloaded assets, BuildIndex does not raise, and the
\* index it builds has the records of the first run's index: those of the
\* documents of the catalog, none of a downloaded asset file.
C38_RerunSameIndex ==
    (InTrace("create_asset_list") /\ FirstRunIndex(archive.docs).err = "") =>
        /\ cd_error.step # "create_asset_list"
        /\ RowSet(assets) = RowSet(FirstRunIndex(archive.docs).rows)

\* the same when the first run left no asset file that the scan matches
C38_SameIndexWithoutJsonAssets ==
    ~AssetFilesLeft => C38_RerunSameIndex

\* the run hashed the file against the checksum file and accepted or
\* rejected it by the comparison
ValidatedByChecksum ==
    /\ RunEnded /\ requests = 1 /\ md5_check /\ checksum_file.exists
    /\ (rd_result = "ok" \/ rd_error \in IntegrityErrors)

\* C39: when a run under overwrite that found and deleted the destination
\* accepts or rejects the new file by a checksum, that checksum was written
\* from the content-md5 header of the run's own response.
C39_ChecksumOfThisTransfer ==
    (if_exists = "overwrite" /\ file0.exists /\ ValidatedByChecksum)
        => srv_md5 = "valid"

====
